---- MODULE Spec2Model ----
(***************************************************************************)
(* mcp-relay: the tool invocation pipeline of the Jira tools.              *)
(*                                                                         *)
(* One invocation runs  handler -> jiraRequest -> httpRequest -> fetch,    *)
(* suspends at the await of fetch, and resumes when the upstream answers,  *)
(* the network fails or the timeout timer fires.  Several invocations may  *)
(* be in flight at once.                                                   *)
(*                                                                         *)
(* Conventions of the model                                                *)
(*  - an optional value (T | undefined) is a sequence of length <= 1;      *)
(*  - a JSON value is a record [t |-> type, v |-> value];                  *)
(*  - a result without an isError property is written isError |-> FALSE;   *)
(*  - wall-clock readings (timestamp, durationMs) are the token Millis:    *)
(*    the model records which keys a log line has, not the clock's value.  *)
(***************************************************************************)
EXTENDS Integers, Sequences, FiniteSets, TLC

VARIABLES config, inv, uuidCount, event, process

vars == <<config, inv, uuidCount, event, process>>

(* Number of invocations of one process run that the model explores. *)
MaxInv == 2

None == <<>>
Some(x) == <<x>>
IsSome(o) == Len(o) = 1
Get(o) == o[1]

Millis == "<ms>"

RECURSIVE JoinStr(_, _)
(* Array.prototype.join on a sequence of strings *)
JoinStr(seq, sep) ==
  IF Len(seq) = 0 THEN ""
  ELSE IF Len(seq) = 1 THEN seq[1]
  ELSE seq[1] \o sep \o JoinStr(Tail(seq), sep)

RECURSIVE Flatten(_)
(* concatenation of a sequence of sequences *)
Flatten(seqs) ==
  IF Len(seqs) = 0 THEN <<>> ELSE seqs[1] \o Flatten(Tail(seqs))

(***************************************************************************)
(* JSON values and JSON.parse                                              *)
(***************************************************************************)
JNull == [t |-> "null"]
JStr(s) == [t |-> "string", v |-> s]
JNum(n) == [t |-> "number", v |-> n]
JBool(b) == [t |-> "boolean", v |-> b]
JArr(s) == [t |-> "array", v |-> s]
JObj(r) == [t |-> "object", v |-> r]
EmptyObj == [t |-> "object", v |-> <<>>]

(* Response bodies the upstream is taken to send. *)
BodyEmpty == ""
BodyHtml == "<html>Bad Gateway</html>"
BodyObj == "{}"
BodyNull == "null"
BodyErr == "{\"errorMessages\":[\"Field 'foo' cannot be set.\"]}"
BodyIssue == "{\"key\":\"PROJ-1\",\"fields\":{\"summary\":\"Fix login\",\"status\":{\"name\":\"Open\"},\"issuetype\":{\"name\":\"Bug\"},\"priority\":null,\"assignee\":{\"displayName\":\"Ada\"},\"description\":{\"type\":\"doc\",\"version\":1,\"content\":[{\"type\":\"paragraph\",\"content\":[{\"type\":\"text\",\"text\":\"Cannot log in\"}]}]},\"created\":\"2025-01-01\",\"updated\":\"2025-01-02\",\"labels\":[]}}"
BodyIssueBad == "{\"key\":7,\"fields\":{\"summary\":\"Fix login\",\"status\":{},\"issuetype\":{\"name\":\"Bug\"},\"priority\":null,\"assignee\":null,\"created\":\"2025-01-01\"}}"
BodySearch == "{\"issues\":[" \o BodyIssue \o "],\"total\":3,\"isLast\":false}"
BodySearchEmpty == "{\"issues\":[]}"
BodySearchBad == "{\"issues\":[" \o BodyIssueBad \o "],\"total\":\"3\"}"
BodyCreate == "{\"id\":\"10001\",\"key\":\"PROJ-2\",\"self\":\"https://acme.atlassian.net/rest/api/3/issue/10001\"}"
BodyCreateBad == "{\"id\":\"10001\",\"self\":\"10001\"}"

IssueValue ==
  JObj([key |-> JStr("PROJ-1"),
        fields |-> JObj([summary |-> JStr("Fix login"),
                         status |-> JObj([name |-> JStr("Open")]),
                         issuetype |-> JObj([name |-> JStr("Bug")]),
                         priority |-> JNull,
                         assignee |-> JObj([displayName |-> JStr("Ada")]),
                         description |->
                           JObj([type |-> JStr("doc"), version |-> JNum(1),
                                 content |-> JArr(<<
                                   JObj([type |-> JStr("paragraph"),
                                         content |-> JArr(<<
                                           JObj([type |-> JStr("text"),
                                                 text |-> JStr("Cannot log in")])>>)])>>)]),
                         created |-> JStr("2025-01-01"),
                         updated |-> JStr("2025-01-02"),
                         labels |-> JArr(<<>>)])])

IssueBadValue ==
  JObj([key |-> JNum(7),
        fields |-> JObj([summary |-> JStr("Fix login"),
                         status |-> EmptyObj,
                         issuetype |-> JObj([name |-> JStr("Bug")]),
                         priority |-> JNull,
                         assignee |-> JNull,
                         created |-> JStr("2025-01-01")])])

(* JSON.parse: the parsed value, or None when it throws a SyntaxError. *)
JSONParse(body) ==
  CASE body = BodyObj -> Some(EmptyObj)
    [] body = BodyNull -> Some(JNull)
    [] body = BodyErr ->
         Some(JObj([errorMessages |-> JArr(<<JStr("Field 'foo' cannot be set.")>>)]))
    [] body = BodyIssue -> Some(IssueValue)
    [] body = BodyIssueBad -> Some(IssueBadValue)
    [] body = BodySearch ->
         Some(JObj([issues |-> JArr(<<IssueValue>>), total |-> JNum(3),
                    isLast |-> JBool(FALSE)]))
    [] body = BodySearchEmpty -> Some(JObj([issues |-> JArr(<<>>)]))
    [] body = BodySearchBad ->
         Some(JObj([issues |-> JArr(<<IssueBadValue>>), total |-> JStr("3")]))
    [] body = BodyCreate ->
         Some(JObj([id |-> JStr("10001"), key |-> JStr("PROJ-2"),
                    self |-> JStr("https://acme.atlassian.net/rest/api/3/issue/10001")]))
    [] body = BodyCreateBad ->
         Some(JObj([id |-> JStr("10001"), self |-> JStr("10001")]))
    [] OTHER -> None

(***************************************************************************)
(* zod schemas (as data) and safeParse                                     *)
(***************************************************************************)
ZString == [z |-> "string", check |-> "none"]
ZUrl == [z |-> "string", check |-> "url"]
ZEmail == [z |-> "string", check |-> "email"]
ZMin1 == [z |-> "string", check |-> "min1"]
ZNumber == [z |-> "number", check |-> "none"]
ZBoolean == [z |-> "boolean", check |-> "none"]
ZUnknown == [z |-> "unknown"]
ZNullable(s) == [z |-> "nullable", inner |-> s]
ZOptional(s) == [z |-> "optional", inner |-> s]
ZArray(s) == [z |-> "array", element |-> s]
ZObject(shape) == [z |-> "object", shape |-> shape]
Field(k, s) == [key |-> k, schema |-> s]

JiraIssueResponseSchema ==
  ZObject(<<
    Field("key", ZString),
    Field("fields", ZObject(<<
      Field("summary", ZString),
      Field("status", ZObject(<<Field("name", ZString)>>)),
      Field("issuetype", ZObject(<<Field("name", ZString)>>)),
      Field("priority", ZNullable(ZObject(<<Field("name", ZString)>>))),
      Field("assignee", ZNullable(ZObject(<<Field("displayName", ZString),
                                            Field("emailAddress", ZOptional(ZString))>>))),
      Field("description", ZNullable(ZUnknown)),
      Field("created", ZString),
      Field("updated", ZString)>>))>>)

JiraSearchResponseSchema ==
  ZObject(<<Field("issues", ZArray(JiraIssueResponseSchema)),
            Field("total", ZOptional(ZNumber)),
            Field("isLast", ZOptional(ZBoolean))>>)

JiraCreateIssueResponseSchema ==
  ZObject(<<Field("id", ZString), Field("key", ZString), Field("self", ZUrl)>>)

(* The strings of the model that new URL() accepts. *)
IsUrl(s) ==
  s \in {"https://acme.atlassian.net/rest/api/3/issue/10001", "https://acme.atlassian.net"}

(* The strings of the model that zod's email check accepts. *)
IsEmail(s) == s \in {"bot@acme.test", "ops@acme.test"}

Prop(obj, k) == IF k \in DOMAIN obj.v THEN Some(obj.v[k]) ELSE None

RECURSIVE ZodIssues(_, _, _)
(* The issues zod reports for an optional value at a path: every violated  *)
(* field yields one entry, in schema order.                                *)
ZodIssues(schema, ov, path) ==
  CASE schema.z = "unknown" -> <<>>
    [] schema.z = "optional" ->
         IF ov = None THEN <<>> ELSE ZodIssues(schema.inner, ov, path)
    [] schema.z = "nullable" ->
         IF IsSome(ov) /\ Get(ov).t = "null" THEN <<>>
         ELSE ZodIssues(schema.inner, ov, path)
    [] OTHER ->
         IF ov = None THEN <<[path |-> path, message |-> "Required"]>>
         ELSE IF Get(ov).t # schema.z
           THEN <<[path |-> path,
                   message |-> "Expected " \o schema.z \o ", received " \o Get(ov).t]>>
         ELSE IF schema.z = "object"
           THEN Flatten([i \in 1..Len(schema.shape) |->
                  ZodIssues(schema.shape[i].schema, Prop(Get(ov), schema.shape[i].key),
                            Append(path, schema.shape[i].key))])
         ELSE IF schema.z = "array"
           THEN Flatten([i \in 1..Len(Get(ov).v) |->
                  ZodIssues(schema.element, Some(Get(ov).v[i]),
                            Append(path, ToString(i - 1)))])
         ELSE IF schema.check = "url" /\ ~IsUrl(Get(ov).v)
           THEN <<[path |-> path, message |-> "Invalid url"]>>
         ELSE IF schema.check = "email" /\ ~IsEmail(Get(ov).v)
           THEN <<[path |-> path, message |-> "Invalid email"]>>
         ELSE IF schema.check = "min1" /\ Len(Get(ov).v) < 1
           THEN <<[path |-> path,
                   message |-> "String must contain at least 1 character(s)"]>>
         ELSE <<>>

RECURSIVE ZodData(_, _)
(* The value zod returns for an accepted value: objects keep only the keys *)
(* of their shape.                                                         *)
ZodData(schema, value) ==
  CASE schema.z \in {"optional", "nullable"} ->
         IF value.t = "null" THEN value ELSE ZodData(schema.inner, value)
    [] schema.z = "object" ->
         JObj([k \in {schema.shape[i].key : i \in 1..Len(schema.shape)} \cap DOMAIN value.v |->
                 ZodData((CHOOSE f \in {schema.shape[i] : i \in 1..Len(schema.shape)} :
                            f.key = k).schema, value.v[k])])
    [] schema.z = "array" ->
         JArr([i \in 1..Len(value.v) |-> ZodData(schema.element, value.v[i])])
    [] OTHER -> value

SafeParse(schema, data) ==
  LET issues == ZodIssues(schema, Some(data), <<>>)
  IN IF issues = <<>>
     THEN [success |-> TRUE, data |-> ZodData(schema, data), issues |-> <<>>]
     ELSE [success |-> FALSE, data |-> data, issues |-> issues]

(***************************************************************************)
(* Error taxonomy                                                          *)
(***************************************************************************)
ExternalServiceError(message, metadata, statusCode) ==
  [name |-> "ExternalServiceError", message |-> message, metadata |-> metadata,
   statusCode |-> statusCode]

ValidationError(message, metadata, issues) ==
  [name |-> "ValidationError", message |-> message, metadata |-> metadata,
   issues |-> issues]

ConfigurationError(message, metadata) ==
  [name |-> "ConfigurationError", message |-> message, metadata |-> metadata]

Return(v) == [kind |-> "return", value |-> v]
Throw(e) == [kind |-> "throw", error |-> e]

(***************************************************************************)
(* parseResponse                                                           *)
(***************************************************************************)
parseResponse(schema, data, metadata) ==
  LET result == SafeParse(schema, data)
      issues == [i \in 1..Len(result.issues) |->
                   JoinStr(result.issues[i].path, ".") \o ": " \o result.issues[i].message]
  IN IF result.success
     THEN Return(result.data)
     ELSE Throw(ValidationError("API response did not match expected schema",
                                metadata, issues))

(***************************************************************************)
(* Log sink                                                                *)
(***************************************************************************)
SENSITIVE_KEYS ==
  {"apitoken", "api_token", "apikey", "api_key", "accesskeyid", "access_key_id",
   "secretaccesskey", "secret_access_key", "password", "secret", "token",
   "authorization", "cookie"}

(* String.prototype.toLowerCase on one character (ASCII letters). *)
LowerCaseOf ==
  LET upper == "ABCDEFGHIJKLMNOPQRSTUVWXYZ"
      lower == "abcdefghijklmnopqrstuvwxyz"
  IN [c \in {SubSeq(upper, n, n) : n \in 1..26} |->
        LET n == CHOOSE n \in 1..26 : SubSeq(upper, n, n) = c
        IN SubSeq(lower, n, n)]

LowerChar(c) == IF c \in DOMAIN LowerCaseOf THEN LowerCaseOf[c] ELSE c

RECURSIVE ToLowerCase(_)
(* String.prototype.toLowerCase *)
ToLowerCase(k) ==
  IF Len(k) = 0 THEN "" ELSE LowerChar(SubSeq(k, 1, 1)) \o ToLowerCase(Tail(k))

RECURSIVE sanitise(_)
(* Mutation: arrays are passed through without being searched. *)
sanitise_ArraysSkipped(value) ==
  CASE value.t = "object" ->
         JObj([k \in DOMAIN value.v |->
                 IF ToLowerCase(k) \in SENSITIVE_KEYS THEN JStr("[REDACTED]")
                 ELSE sanitise(value.v[k])])
    [] OTHER -> value

(* Mutation: fields without a value are left out of the output. *)
sanitise_NullsDropped(value) ==
  CASE value.t = "array" -> JArr([i \in 1..Len(value.v) |-> sanitise(value.v[i])])
    [] value.t = "object" ->
         JObj([k \in {k \in DOMAIN value.v : value.v[k] # JNull} |->
                 IF ToLowerCase(k) \in SENSITIVE_KEYS THEN JStr("[REDACTED]")
                 ELSE sanitise(value.v[k])])
    [] OTHER -> value

sanitise(value) ==
  CASE value.t = "array" -> JArr([i \in 1..Len(value.v) |-> sanitise(value.v[i])])
    [] value.t = "object" ->
         JObj([k \in DOMAIN value.v |->
                 IF ToLowerCase(k) \in SENSITIVE_KEYS THEN JStr("[REDACTED]")
                 ELSE sanitise(value.v[k])])
    [] OTHER -> value

(* The line that log(entry) writes to stderr (before JSON.stringify).      *)
(* entry and metadata are plain key/value records; the spread puts the      *)
(* entry's keys over the timestamp.                                         *)
log(entry) == sanitise(JObj(entry @@ [timestamp |-> JStr(Millis)]))

(* The spread ...metadata inside an entry literal. *)
MetaFields(metadata) ==
  [toolName |-> JStr(metadata.toolName), operation |-> JStr(metadata.operation),
   correlationId |-> JStr(metadata.correlationId)]

(***************************************************************************)
(* Bounded network client                                                  *)
(***************************************************************************)
DEFAULT_TIMEOUT_MS == 30000

StartsWith(s, prefix) == Len(s) >= Len(prefix) /\ SubSeq(s, 1, Len(prefix)) = prefix

RECURSIVE UpToQueryOrHash(_)
UpToQueryOrHash(s) ==
  IF Len(s) = 0 \/ SubSeq(s, 1, 1) \in {"?", "#"} THEN ""
  ELSE SubSeq(s, 1, 1) \o UpToQueryOrHash(Tail(s))

(* Mutation: the raw URL is put into the message (the earlier revision). *)
safeUrl_Raw(raw) == raw

(* new URL(raw) throws unless raw is absolute; origin + pathname is raw cut  *)
(* at the first "?" or "#" (the URLs of the model are already normalised).   *)
safeUrl(raw) ==
  IF StartsWith(raw, "https://") \/ StartsWith(raw, "http://")
  THEN UpToQueryOrHash(raw)
  ELSE "<malformed-url>"

(* What the awaited fetch / response.text() can do. *)
FetchResponse(status, body) == [kind |-> "response", status |-> status, body |-> body]
FetchReject(name, message, dom) ==
  [kind |-> "reject", error |-> [name |-> name, message |-> message, isDOMException |-> dom]]
(* Mutation: the abort surfaces as a plain Error, not a DOMException. *)
AbortError_PlainError == FetchReject("AbortError", "This operation was aborted", FALSE)

AbortError == FetchReject("AbortError", "This operation was aborted", TRUE)

(* Mutation: a completed response with a status of 400 or more is thrown. *)
httpRequest_ThrowsOnErrorStatus(options, settled) ==
  IF settled.kind = "response" /\ settled.status < 400
  THEN Return([status |-> settled.status, body |-> settled.body])
  ELSE Throw(ExternalServiceError(
         "Request to " \o safeUrl(options.url) \o " failed",
         options.metadata, None))

(* httpRequest from the settling of its fetch onwards. *)
httpRequest(options, settled) ==
  IF settled.kind = "response"
  THEN Return([status |-> settled.status, body |-> settled.body])
  ELSE LET safe == safeUrl(options.url)
           error == settled.error
       IN IF error.isDOMException /\ error.name = "AbortError"
          THEN Throw(ExternalServiceError(
                 "Request to " \o safe \o " timed out after "
                   \o ToString(options.timeoutMs) \o "ms",
                 options.metadata, None))
          ELSE Throw(ExternalServiceError(
                 "Request to " \o safe \o " failed: " \o error.message,
                 options.metadata, None))

(***************************************************************************)
(* Jira domain client                                                      *)
(***************************************************************************)
(* Buffer.from(s).toString('base64'), kept symbolic and injective. *)
Base64(s) == "base64(" \o s \o ")"

McpError(text) ==
  [isError |-> TRUE, content |-> <<[type |-> "text", text |-> text]>>]

McpText(text) ==
  [isError |-> FALSE, content |-> <<[type |-> "text", text |-> text]>>]

(* Mutation: the Content-Type header is sent with every request. *)
JiraHttpOptions_ContentTypeAlways(options) ==
  [url |-> options.config.baseUrl \o options.path,
   method |-> IF IsSome(options.method) THEN Get(options.method) ELSE "GET",
   headers |->
     ("Authorization" :> "Basic " \o Base64(options.config.userEmail \o ":"
                                                \o options.config.apiToken))
     @@ ("Accept" :> "application/json")
     @@ ("Content-Type" :> "application/json"),
   body |-> options.body,
   timeoutMs |-> DEFAULT_TIMEOUT_MS,
   metadata |-> options.metadata]

(* The options jiraRequest passes to httpRequest (lines 53-68).            *)
(* options.method and options.body are optional; method defaults to GET.   *)
JiraHttpOptions(options) ==
  [url |-> options.config.baseUrl \o options.path,
   method |-> IF IsSome(options.method) THEN Get(options.method) ELSE "GET",
   headers |->
     ("Authorization" :> "Basic " \o Base64(options.config.userEmail \o ":"
                                                \o options.config.apiToken))
     @@ ("Accept" :> "application/json")
     @@ (IF IsSome(options.body) THEN "Content-Type" :> "application/json" ELSE <<>>),
   body |-> options.body,
   timeoutMs |-> DEFAULT_TIMEOUT_MS,
   metadata |-> options.metadata]

(* Mutation: the caller's notFoundMessage is ignored. *)
NotFoundText_AlwaysDefault(options) ==
  "The requested Jira resource was not found. Check the identifier and try again."

(* notFoundMessage ?? generic default (lines 105-107) *)
NotFoundText(options) ==
  IF IsSome(options.notFoundMessage) THEN Get(options.notFoundMessage)
  ELSE "The requested Jira resource was not found. Check the identifier and try again."

(* Mutation: only 4xx and 5xx count as unexpected. *)
UnexpectedStatus_From400(status) == status >= 400

(* The test for an unexpected non-2xx status (line 120) *)
UnexpectedStatus(status) == status < 200 \/ status >= 300

(* Mutation: a body that does not parse is passed on as null. *)
ParseJiraBody_Swallow(response, metadata) ==
  IF JSONParse(response.body) = None
  THEN Return([ok |-> TRUE, data |-> JNull])
  ELSE Return([ok |-> TRUE, data |-> Get(JSONParse(response.body))])

(* Parse JSON (lines 128-136) *)
ParseJiraBody(response, metadata) ==
  IF JSONParse(response.body) = None
  THEN Throw(ExternalServiceError("Failed to parse Jira API response as JSON",
                                  metadata, None))
  ELSE Return([ok |-> TRUE, data |-> Get(JSONParse(response.body))])

(* Mutation: the lines of jiraRequest are written without the metadata. *)
JiraLog_NoMetadata(level, message, metadata) ==
  log([level |-> JStr(level), message |-> JStr(message)])

JiraLog(level, message, metadata) ==
  log([level |-> JStr(level), message |-> JStr(message)] @@ MetaFields(metadata))

(* jiraRequest from the settling of httpRequest onwards (lines 58-136):    *)
(* what it returns or throws, and the lines it logs.                        *)
jiraRequest(options, http) ==
  LET metadata == options.metadata IN
  IF http.kind = "throw" THEN [outcome |-> http, logged |-> <<>>]
  ELSE LET response == http.value IN
    IF response.status = 401
    THEN [outcome |-> Return([ok |-> FALSE, mcpResponse |->
             McpError("Jira authentication failed. Check the configured credentials.")]),
          logged |-> <<JiraLog("error", "Jira authentication failed", metadata)>>]
    ELSE IF response.status = 403
    THEN [outcome |-> Return([ok |-> FALSE, mcpResponse |->
             McpError("Permission denied when accessing Jira. The configured user may lack access.")]),
          logged |-> <<JiraLog("error", "Jira permission denied", metadata)>>]
    ELSE IF response.status = 404
    THEN [outcome |-> Return([ok |-> FALSE, mcpResponse |-> McpError(NotFoundText(options))]),
          logged |-> <<JiraLog("warn", "Jira resource not found", metadata)>>]
    ELSE IF UnexpectedStatus(response.status)
    THEN [outcome |-> Throw(ExternalServiceError(
             "Jira API returned unexpected status " \o ToString(response.status),
             metadata, Some(response.status))),
          logged |-> <<>>]
    ELSE [outcome |-> ParseJiraBody(response, metadata), logged |-> <<>>]

(***************************************************************************)
(* Response formatters                                                     *)
(***************************************************************************)
IsSpace(c) == c \in {" ", "\n", "\t", "\r"}

RECURSIVE TrimStart(_)
TrimStart(s) == IF Len(s) > 0 /\ IsSpace(SubSeq(s, 1, 1)) THEN TrimStart(Tail(s)) ELSE s

RECURSIVE TrimEnd(_)
TrimEnd(s) ==
  IF Len(s) > 0 /\ IsSpace(SubSeq(s, Len(s), Len(s)))
  THEN TrimEnd(SubSeq(s, 1, Len(s) - 1)) ELSE s

(* String.prototype.trim *)
Trim(s) == TrimEnd(TrimStart(s))

RECURSIVE SplitLines(_)
(* String.prototype.split('\n') *)
SplitLines(s) ==
  IF \A i \in 1..Len(s) : SubSeq(s, i, i) # "\n" THEN <<s>>
  ELSE LET i == CHOOSE j \in 1..Len(s) :
                  SubSeq(s, j, j) = "\n" /\ \A k \in 1..(j - 1) : SubSeq(s, k, k) # "\n"
       IN <<SubSeq(s, 1, i - 1)>> \o SplitLines(SubSeq(s, i + 1, Len(s)))

(* JavaScript truthiness of a JSON value *)
Truthy(value) ==
  CASE value.t = "null" -> FALSE
    [] value.t = "string" -> value.v # ""
    [] value.t = "number" -> value.v # 0
    [] value.t = "boolean" -> value.v
    [] OTHER -> TRUE

RECURSIVE extractTextFromAdf(_)
(* Mutation: a node of a type the reducer does not know is reduced to       *)
(* nothing.                                                                 *)
extractTextFromAdf_UnknownDropped(node) ==
  IF node.t # "object" THEN ""
  ELSE IF ~("type" \in DOMAIN node.v) \/ node.v["type"].t # "string" THEN ""
  ELSE LET type == node.v["type"].v IN
    IF type = "text"
    THEN IF "text" \in DOMAIN node.v /\ node.v["text"].t = "string"
         THEN node.v["text"].v ELSE ""
    ELSE IF type = "hardBreak" THEN "\n"
    ELSE IF ~("content" \in DOMAIN node.v) \/ node.v["content"].t # "array" THEN ""
    ELSE LET content == node.v["content"].v
             childTexts == [i \in 1..Len(content) |-> extractTextFromAdf(content[i])]
         IN CASE type = "doc" -> JoinStr(childTexts, "\n\n")
              [] type \in {"paragraph", "heading"} -> JoinStr(childTexts, "")
              [] type = "bulletList" -> JoinStr(childTexts, "\n")
              [] type = "orderedList" ->
                   JoinStr([i \in 1..Len(content) |->
                              LET text == childTexts[i]
                              IN IF StartsWith(text, "- ")
                                 THEN ToString(i) \o ". " \o SubSeq(text, 3, Len(text))
                                 ELSE ToString(i) \o ". " \o text], "\n")
              [] type = "listItem" -> "- " \o JoinStr(childTexts, "")
              [] type = "codeBlock" -> JoinStr(childTexts, "")
              [] type = "blockquote" ->
                   LET lines == SplitLines(JoinStr(childTexts, ""))
                   IN JoinStr([i \in 1..Len(lines) |-> "> " \o lines[i]], "\n")
              [] OTHER -> ""

(* Mutation: an ordered list keeps the "- " of its items. *)
extractTextFromAdf_MarkerKept(node) ==
  IF node.t # "object" THEN ""
  ELSE IF ~("type" \in DOMAIN node.v) \/ node.v["type"].t # "string" THEN ""
  ELSE LET type == node.v["type"].v IN
    IF type = "text"
    THEN IF "text" \in DOMAIN node.v /\ node.v["text"].t = "string"
         THEN node.v["text"].v ELSE ""
    ELSE IF type = "hardBreak" THEN "\n"
    ELSE IF ~("content" \in DOMAIN node.v) \/ node.v["content"].t # "array" THEN ""
    ELSE LET content == node.v["content"].v
             childTexts == [i \in 1..Len(content) |-> extractTextFromAdf(content[i])]
         IN CASE type = "doc" -> JoinStr(childTexts, "\n\n")
              [] type \in {"paragraph", "heading"} -> JoinStr(childTexts, "")
              [] type = "bulletList" -> JoinStr(childTexts, "\n")
              [] type = "orderedList" ->
                   JoinStr([i \in 1..Len(content) |->
                              LET text == childTexts[i]
                              IN IF StartsWith(text, "- ")
                                 THEN ToString(i) \o ". " \o text
                                 ELSE ToString(i) \o ". " \o text], "\n")
              [] type = "listItem" -> "- " \o JoinStr(childTexts, "")
              [] type = "codeBlock" -> JoinStr(childTexts, "")
              [] type = "blockquote" ->
                   LET lines == SplitLines(JoinStr(childTexts, ""))
                   IN JoinStr([i \in 1..Len(lines) |-> "> " \o lines[i]], "\n")
              [] OTHER -> JoinStr(childTexts, "")

extractTextFromAdf(node) ==
  IF node.t # "object" THEN ""
  ELSE IF ~("type" \in DOMAIN node.v) \/ node.v["type"].t # "string" THEN ""
  ELSE LET type == node.v["type"].v IN
    IF type = "text"
    THEN IF "text" \in DOMAIN node.v /\ node.v["text"].t = "string"
         THEN node.v["text"].v ELSE ""
    ELSE IF type = "hardBreak" THEN "\n"
    ELSE IF ~("content" \in DOMAIN node.v) \/ node.v["content"].t # "array" THEN ""
    ELSE LET content == node.v["content"].v
             childTexts == [i \in 1..Len(content) |-> extractTextFromAdf(content[i])]
         IN CASE type = "doc" -> JoinStr(childTexts, "\n\n")
              [] type \in {"paragraph", "heading"} -> JoinStr(childTexts, "")
              [] type = "bulletList" -> JoinStr(childTexts, "\n")
              [] type = "orderedList" ->
                   JoinStr([i \in 1..Len(content) |->
                              LET text == childTexts[i]
                              IN IF StartsWith(text, "- ")
                                 THEN ToString(i) \o ". " \o SubSeq(text, 3, Len(text))
                                 ELSE ToString(i) \o ". " \o text], "\n")
              [] type = "listItem" -> "- " \o JoinStr(childTexts, "")
              [] type = "codeBlock" -> JoinStr(childTexts, "")
              [] type = "blockquote" ->
                   LET lines == SplitLines(JoinStr(childTexts, ""))
                   IN JoinStr([i \in 1..Len(lines) |-> "> " \o lines[i]], "\n")
              [] OTHER -> JoinStr(childTexts, "")

(* fields.priority?.name ?? 'None' and fields.assignee?.displayName ??     *)
(* 'Unassigned', on a validated issue.                                      *)
PriorityName(fields) ==
  IF fields.v["priority"].t = "null" THEN "None" ELSE fields.v["priority"].v["name"].v

AssigneeName(fields) ==
  IF fields.v["assignee"].t = "null" THEN "Unassigned"
  ELSE fields.v["assignee"].v["displayName"].v

(* Mutation: the two timestamps are left out of the block. *)
formatJiraIssue_NoTimestamps(issue) ==
  LET key == issue.v["key"].v
      fields == issue.v["fields"]
  IN JoinStr(<<key \o ": " \o fields.v["summary"].v,
               "",
               "Type:     " \o fields.v["issuetype"].v["name"].v,
               "Status:   " \o fields.v["status"].v["name"].v,
               "Priority: " \o PriorityName(fields),
               "Assignee: " \o AssigneeName(fields)>>, "\n")

formatJiraIssue(issue) ==
  LET key == issue.v["key"].v
      fields == issue.v["fields"]
      descriptionText ==
        IF "description" \in DOMAIN fields.v /\ Truthy(fields.v["description"])
        THEN extractTextFromAdf(fields.v["description"]) ELSE ""
      description ==
        IF Trim(descriptionText) # "" THEN Trim(descriptionText)
        ELSE "No description provided."
  IN JoinStr(<<key \o ": " \o fields.v["summary"].v,
               "",
               "Type:     " \o fields.v["issuetype"].v["name"].v,
               "Status:   " \o fields.v["status"].v["name"].v,
               "Priority: " \o PriorityName(fields),
               "Assignee: " \o AssigneeName(fields),
               "",
               "Created:  " \o fields.v["created"].v,
               "Updated:  " \o fields.v["updated"].v,
               "",
               "Description:",
               description>>, "\n")

(* Mutation: the empty page gets no message of its own. *)
formatJiraSearchResults_NoEmptyCase(response) ==
  LET issues == response.v["issues"].v
      moreAvailable == "isLast" \in DOMAIN response.v /\ response.v["isLast"].v = FALSE
      totalInfo == IF "total" \in DOMAIN response.v
                   THEN " of " \o ToString(response.v["total"].v) ELSE ""
      header == IF moreAvailable
                THEN "Showing " \o ToString(Len(issues)) \o totalInfo
                       \o " issue(s) (more results available)."
                ELSE "Found " \o ToString(Len(issues)) \o " issue(s)."
  IN IF FALSE THEN "No issues found matching the query."
     ELSE JoinStr(<<header, "">> \o
            [i \in 1..Len(issues) |->
               LET fields == issues[i].v["fields"]
               IN issues[i].v["key"].v \o "  [" \o fields.v["issuetype"].v["name"].v
                    \o "]  " \o fields.v["status"].v["name"].v
                    \o "  P:" \o PriorityName(fields)
                    \o "  @" \o AssigneeName(fields)
                    \o "  -- " \o fields.v["summary"].v], "\n")

(* Mutation: the test is !isLast, so an absent flag counts as more pages. *)
formatJiraSearchResults_AbsentMeansMore(response) ==
  LET issues == response.v["issues"].v
      moreAvailable == ~("isLast" \in DOMAIN response.v /\ response.v["isLast"].v = TRUE)
      totalInfo == IF "total" \in DOMAIN response.v
                   THEN " of " \o ToString(response.v["total"].v) ELSE ""
      header == IF moreAvailable
                THEN "Showing " \o ToString(Len(issues)) \o totalInfo
                       \o " issue(s) (more results available)."
                ELSE "Found " \o ToString(Len(issues)) \o " issue(s)."
  IN IF Len(issues) = 0 THEN "No issues found matching the query."
     ELSE JoinStr(<<header, "">> \o
            [i \in 1..Len(issues) |->
               LET fields == issues[i].v["fields"]
               IN issues[i].v["key"].v \o "  [" \o fields.v["issuetype"].v["name"].v
                    \o "]  " \o fields.v["status"].v["name"].v
                    \o "  P:" \o PriorityName(fields)
                    \o "  @" \o AssigneeName(fields)
                    \o "  -- " \o fields.v["summary"].v], "\n")

(* The em dash of the summary line is written "--". *)
formatJiraSearchResults(response) ==
  LET issues == response.v["issues"].v
      moreAvailable == "isLast" \in DOMAIN response.v /\ response.v["isLast"].v = FALSE
      totalInfo == IF "total" \in DOMAIN response.v
                   THEN " of " \o ToString(response.v["total"].v) ELSE ""
      header == IF moreAvailable
                THEN "Showing " \o ToString(Len(issues)) \o totalInfo
                       \o " issue(s) (more results available)."
                ELSE "Found " \o ToString(Len(issues)) \o " issue(s)."
  IN IF Len(issues) = 0 THEN "No issues found matching the query."
     ELSE JoinStr(<<header, "">> \o
            [i \in 1..Len(issues) |->
               LET fields == issues[i].v["fields"]
               IN issues[i].v["key"].v \o "  [" \o fields.v["issuetype"].v["name"].v
                    \o "]  " \o fields.v["status"].v["name"].v
                    \o "  P:" \o PriorityName(fields)
                    \o "  @" \o AssigneeName(fields)
                    \o "  -- " \o fields.v["summary"].v], "\n")

RECURSIVE SplitBlocks(_, _)
(* String.prototype.split(/\n{2,}/): cur is the block read so far. *)
SplitBlocks(s, cur) ==
  IF Len(s) = 0 THEN <<cur>>
  ELSE IF StartsWith(s, "\n\n")
    THEN LET rest == CHOOSE r \in {SubSeq(s, i, Len(s)) : i \in 3..(Len(s) + 1)} :
                       ~StartsWith(r, "\n")
                       /\ \A j \in 1..(Len(s) - Len(r)) : SubSeq(s, j, j) = "\n"
         IN <<cur>> \o SplitBlocks(rest, "")
  ELSE SplitBlocks(Tail(s), cur \o SubSeq(s, 1, 1))

(* Mutation: every line break separates two paragraphs. *)
textToAdf_ParagraphPerLine(text) ==
  LET blocks == SplitLines(text)
      trimmed == [i \in 1..Len(blocks) |-> Trim(blocks[i])]
      kept == SelectSeq(trimmed, LAMBDA b : b # "")
      para(b) == JObj([type |-> JStr("paragraph"),
                       content |-> JArr(<<JObj([type |-> JStr("text"), text |-> JStr(b)])>>)])
  IN JObj([type |-> JStr("doc"), version |-> JNum(1),
           content |-> JArr(IF Len(kept) > 0
                            THEN [i \in 1..Len(kept) |-> para(kept[i])]
                            ELSE <<para("")>>)])

textToAdf(text) ==
  LET blocks == SplitBlocks(text, "")
      trimmed == [i \in 1..Len(blocks) |-> Trim(blocks[i])]
      kept == SelectSeq(trimmed, LAMBDA b : b # "")
      para(b) == JObj([type |-> JStr("paragraph"),
                       content |-> JArr(<<JObj([type |-> JStr("text"), text |-> JStr(b)])>>)])
  IN JObj([type |-> JStr("doc"), version |-> JNum(1),
           content |-> JArr(IF Len(kept) > 0
                            THEN [i \in 1..Len(kept) |-> para(kept[i])]
                            ELSE <<para("")>>)])

(***************************************************************************)
(* Tool handlers.  Each handler is split at its one await:                 *)
(*   XMetadata, XStartLog, XRequest  - the part before `await jiraRequest` *)
(*   XSettle                         - the part after it, catch included   *)
(* A handler's settle part yields the response it returns, the lines it    *)
(* logs (in order), the pipeline steps it ran and the error its catch      *)
(* block caught, if any.  Every value thrown in the model is an Error.     *)
(***************************************************************************)
Settled(response, logged, steps, caught, exit) ==
  [response |-> response, logged |-> logged, steps |-> steps, caught |-> caught,
   exit |-> exit]

Entry(level, message, metadata) ==
  [level |-> JStr(level), message |-> JStr(message)] @@ MetaFields(metadata)

(* Mutation: the duration is left out of the entry. *)
Timed_Dropped(entry) == entry

Timed(entry) == entry @@ [durationMs |-> JStr(Millis)]

WithError(entry, errorMessage) == entry @@ [error |-> JStr(errorMessage)]

UnreservedChars ==
  LET u == "ABCDEFGHIJKLMNOPQRSTUVWXYZabcdefghijklmnopqrstuvwxyz0123456789-_.!~*'()"
  IN {SubSeq(u, i, i) : i \in 1..Len(u)}

(* The percent-encoding of the reserved characters that occur in the model. *)
PercentEncode(c) ==
  CASE c = "," -> "%2C"
    [] c = " " -> "%20"
    [] c = "/" -> "%2F"
    [] c = "?" -> "%3F"
    [] c = "#" -> "%23"
    [] c = "=" -> "%3D"
    [] c = "&" -> "%26"

RECURSIVE encodeURIComponent(_)
encodeURIComponent(s) ==
  IF Len(s) = 0 THEN ""
  ELSE (IF SubSeq(s, 1, 1) \in UnreservedChars THEN SubSeq(s, 1, 1)
        ELSE PercentEncode(SubSeq(s, 1, 1))) \o encodeURIComponent(Tail(s))

JIRA_FIELDS ==
  <<"summary", "status", "assignee", "priority", "issuetype", "description",
    "created", "updated">>

(* new URLSearchParams({ fields: JIRA_FIELDS.join(',') }).toString() *)
GetIssueParams == "fields=" \o encodeURIComponent(JoinStr(JIRA_FIELDS, ","))

(* JSON.stringify of a request payload, kept symbolic. *)
JSONStringify(value) == [json |-> value]

(* ---- jira_get_issue ---- *)
GetIssueMetadata(correlationId) ==
  [toolName |-> "jira_get_issue", operation |-> "getIssue", correlationId |-> correlationId]

GetIssueStartLog(args, metadata) ==
  log(Entry("info", "Fetching Jira issue " \o args.issueKey, metadata))

(* Mutation: no notFoundMessage is passed to jiraRequest. *)
GetIssueRequest_NoNotFound(args, cfg, metadata) ==
  [config |-> cfg.jira,
   path |-> "/rest/api/3/issue/" \o encodeURIComponent(args.issueKey) \o "?" \o GetIssueParams,
   method |-> None,
   body |-> None,
   metadata |-> metadata,
   notFoundMessage |-> None]

GetIssueRequest(args, cfg, metadata) ==
  [config |-> cfg.jira,
   path |-> "/rest/api/3/issue/" \o encodeURIComponent(args.issueKey) \o "?" \o GetIssueParams,
   method |-> None,
   body |-> None,
   metadata |-> metadata,
   notFoundMessage |->
     Some("Jira issue " \o args.issueKey \o " was not found. Check the issue key and try again.")]

(* Mutation: the catch-all forgets the isError flag. *)
GetIssueCatch_Unflagged(args, metadata, error, steps) ==
  Settled(McpText("An error occurred while fetching Jira issue " \o args.issueKey
                    \o ". Check server logs for details."),
          <<log(Timed(WithError(Entry("error", "Failed to fetch issue " \o args.issueKey,
                                      metadata), error.message)))>>,
          steps, Some(error), "catchAll")

GetIssueCatch(args, metadata, error, steps) ==
  Settled(McpError("An error occurred while fetching Jira issue " \o args.issueKey
                     \o ". Check server logs for details."),
          <<log(Timed(WithError(Entry("error", "Failed to fetch issue " \o args.issueKey,
                                      metadata), error.message)))>>,
          steps, Some(error), "catchAll")

GetIssueEnvelopeFailure(args, metadata, result) ==
  Settled(result.mcpResponse,
           <<log(Timed(Entry("warn", "Jira request failed for " \o args.issueKey,
                             metadata)))>>,
           <<>>, None, "envelope")

GetIssueSettle(args, metadata, jr) ==
  IF jr.kind = "throw" THEN GetIssueCatch(args, metadata, jr.error, <<>>)
  ELSE LET result == jr.value IN
    IF ~result.ok
    THEN GetIssueEnvelopeFailure(args, metadata, result)
    ELSE LET validated == parseResponse(JiraIssueResponseSchema, result.data, metadata) IN
      IF validated.kind = "throw"
      THEN GetIssueCatch(args, metadata, validated.error, <<"parseResponse">>)
      ELSE Settled(McpText(formatJiraIssue(validated.value)),
                   <<log(Timed(Entry("info", "Fetched issue " \o args.issueKey, metadata)))>>,
                   <<"parseResponse", "formatJiraIssue">>, None, "success")

(* ---- jira_search_issues ---- *)
SearchIssuesMetadata(correlationId) ==
  [toolName |-> "jira_search_issues", operation |-> "searchIssues",
   correlationId |-> correlationId]

SearchIssuesStartLog(args, metadata) ==
  log(Entry("info", "Searching Jira issues with JQL", metadata))

SearchIssuesRequest(args, cfg, metadata) ==
  [config |-> cfg.jira,
   path |-> "/rest/api/3/search/jql",
   method |-> Some("POST"),
   body |-> Some(JSONStringify([jql |-> args.jql, maxResults |-> args.maxResults,
                                fields |-> JIRA_FIELDS])),
   metadata |-> metadata,
   notFoundMessage |-> None]

(* Mutation: the catch-all hands the caught error's message to the caller. *)
SearchIssuesCatch_Leaky(args, metadata, error, steps) ==
  IF error.name = "ExternalServiceError" /\ error.statusCode = Some(400)
  THEN Settled(McpError("Invalid JQL query. Check the syntax and field names, then try again."),
               <<log(Timed(WithError(Entry("warn", "Invalid JQL query", metadata),
                                     error.message)))>>,
               steps, Some(error), "catch400")
  ELSE Settled(McpError("An error occurred while searching Jira issues: " \o error.message),
               <<log(Timed(WithError(Entry("error", "Failed to search Jira issues", metadata),
                                     error.message)))>>,
               steps, Some(error), "catchAll")

SearchIssuesCatch(args, metadata, error, steps) ==
  IF error.name = "ExternalServiceError" /\ error.statusCode = Some(400)
  THEN Settled(McpError("Invalid JQL query. Check the syntax and field names, then try again."),
               <<log(Timed(WithError(Entry("warn", "Invalid JQL query", metadata),
                                     error.message)))>>,
               steps, Some(error), "catch400")
  ELSE Settled(McpError("An error occurred while searching Jira issues. Check server logs for details."),
               <<log(Timed(WithError(Entry("error", "Failed to search Jira issues", metadata),
                                     error.message)))>>,
               steps, Some(error), "catchAll")

SearchIssuesEnvelopeFailure(args, metadata, result) ==
  Settled(result.mcpResponse,
           <<log(Timed(Entry("warn", "Jira search request failed", metadata)))>>,
           <<>>, None, "envelope")

SearchIssuesSettle(args, metadata, jr) ==
  IF jr.kind = "throw" THEN SearchIssuesCatch(args, metadata, jr.error, <<>>)
  ELSE LET result == jr.value IN
    IF ~result.ok
    THEN SearchIssuesEnvelopeFailure(args, metadata, result)
    ELSE LET validated == parseResponse(JiraSearchResponseSchema, result.data, metadata) IN
      IF validated.kind = "throw"
      THEN SearchIssuesCatch(args, metadata, validated.error, <<"parseResponse">>)
      ELSE Settled(McpText(formatJiraSearchResults(validated.value)),
                   <<log(Timed(Entry("info",
                           "Search returned "
                             \o ToString(Len(validated.value.v["issues"].v)) \o " issue(s)",
                           metadata)))>>,
                   <<"parseResponse", "formatJiraSearchResults">>, None, "success")

(* ---- jira_create_issue ---- *)
CreateIssueMetadata(correlationId) ==
  [toolName |-> "jira_create_issue", operation |-> "createIssue",
   correlationId |-> correlationId]

CreateIssueStartLog(args, metadata) ==
  log(Entry("info", "Creating Jira issue in project " \o args.project, metadata))

CreateIssueRequest(args, cfg, metadata) ==
  [config |-> cfg.jira,
   path |-> "/rest/api/3/issue",
   method |-> Some("POST"),
   body |-> Some(JSONStringify(
     [fields |->
        <<[key |-> "project", value |-> JObj([key |-> JStr(args.project)])],
          [key |-> "summary", value |-> JStr(args.summary)],
          [key |-> "issuetype", value |-> JObj([name |-> JStr(args.issueType)])]>>
        \o (IF IsSome(args.description)
            THEN <<[key |-> "description", value |-> textToAdf(Get(args.description))]>>
            ELSE <<>>)])),
   metadata |-> metadata,
   notFoundMessage |->
     Some("Failed to create issue. The project or issue type may not exist.")]

(* Mutation: every caught error is taken for the upstream's 400. *)
CreateIssueCatch_Always400(args, metadata, error, steps) ==
  Settled(McpError("Failed to create issue. Check the project key and issue type are valid, then try again."),
          <<log(Timed(WithError(Entry("warn", "Invalid project key or issue type",
                                      metadata), error.message)))>>,
          steps, Some(error), "catch400")

CreateIssueCatch(args, metadata, error, steps) ==
  IF error.name = "ExternalServiceError" /\ error.statusCode = Some(400)
  THEN Settled(McpError("Failed to create issue. Check the project key and issue type are valid, then try again."),
               <<log(Timed(WithError(Entry("warn", "Invalid project key or issue type",
                                           metadata), error.message)))>>,
               steps, Some(error), "catch400")
  ELSE Settled(McpError("An error occurred while creating the Jira issue. Check server logs for details."),
               <<log(Timed(WithError(Entry("error", "Failed to create Jira issue", metadata),
                                     error.message)))>>,
               steps, Some(error), "catchAll")

CreateIssueEnvelopeFailure(args, metadata, result) ==
  Settled(result.mcpResponse,
           <<log(Timed(Entry("warn",
                   "Jira create request failed for project " \o args.project,
                   metadata)))>>,
           <<>>, None, "envelope")

CreateIssueSettle(args, metadata, jr) ==
  IF jr.kind = "throw" THEN CreateIssueCatch(args, metadata, jr.error, <<>>)
  ELSE LET result == jr.value IN
    IF ~result.ok
    THEN CreateIssueEnvelopeFailure(args, metadata, result)
    ELSE LET validated == parseResponse(JiraCreateIssueResponseSchema, result.data, metadata) IN
      IF validated.kind = "throw"
      THEN CreateIssueCatch(args, metadata, validated.error, <<"parseResponse">>)
      ELSE Settled(McpText("Created " \o validated.value.v["key"].v \o ": " \o args.summary
                             \o "\n\nType: " \o args.issueType
                             \o "\nProject: " \o args.project),
                   <<log(Timed(Entry("info", "Created issue " \o validated.value.v["key"].v,
                                     metadata)))>>,
                   <<"parseResponse", "successText">>, None, "success")

(* ---- jira_update_issue ---- *)
UpdateIssueMetadata(correlationId) ==
  [toolName |-> "jira_update_issue", operation |-> "updateIssue",
   correlationId |-> correlationId]

UpdateIssueStartLog(args, metadata) ==
  log(Entry("info", "Updating Jira issue " \o args.issueKey, metadata))

(* Mutation: a description is converted whatever its type. *)
ProcessedFields_AnyDescription(fields) ==
  [i \in 1..Len(fields) |->
     IF fields[i].key = "description"
     THEN [key |-> "description",
           value |-> textToAdf(IF fields[i].value.t = "string" THEN fields[i].value.v ELSE "")]
     ELSE fields[i]]

(* fields is an insertion-ordered map: a sequence of [key, value]. *)
ProcessedFields(fields) ==
  [i \in 1..Len(fields) |->
     IF fields[i].key = "description" /\ fields[i].value.t = "string"
     THEN [key |-> "description", value |-> textToAdf(fields[i].value.v)]
     ELSE fields[i]]

(* Mutation: the not-found message names the configured user. *)
UpdateIssueRequest_NamesUser(args, cfg, metadata) ==
  [config |-> cfg.jira,
   path |-> "/rest/api/3/issue/" \o encodeURIComponent(args.issueKey),
   method |-> Some("PUT"),
   body |-> Some(JSONStringify([fields |-> ProcessedFields(args.fields)])),
   metadata |-> metadata,
   notFoundMessage |->
     Some("Issue " \o args.issueKey \o " was not found for " \o cfg.jira.userEmail \o ".")]

UpdateIssueRequest(args, cfg, metadata) ==
  [config |-> cfg.jira,
   path |-> "/rest/api/3/issue/" \o encodeURIComponent(args.issueKey),
   method |-> Some("PUT"),
   body |-> Some(JSONStringify([fields |-> ProcessedFields(args.fields)])),
   metadata |-> metadata,
   notFoundMessage |->
     Some("Issue " \o args.issueKey \o " was not found. Check the issue key and try again.")]

(* Mutation: the upstream's 400 is not told apart from other errors. *)
UpdateIssueCatch_No400(args, metadata, error, steps) ==
  Settled(McpError("An error occurred while updating the Jira issue. Check server logs for details."),
          <<log(Timed(WithError(Entry("error", "Failed to update Jira issue", metadata),
                                error.message)))>>,
          steps, Some(error), "catchAll")

UpdateIssueCatch(args, metadata, error, steps) ==
  IF error.name = "ExternalServiceError" /\ error.statusCode = Some(400)
  THEN Settled(McpError("Failed to update issue. Check the field names and values are valid, then try again."),
               <<log(Timed(WithError(Entry("warn",
                       "Invalid field names or values in update request", metadata),
                       error.message)))>>,
               steps, Some(error), "catch400")
  ELSE Settled(McpError("An error occurred while updating the Jira issue. Check server logs for details."),
               <<log(Timed(WithError(Entry("error", "Failed to update Jira issue", metadata),
                                     error.message)))>>,
               steps, Some(error), "catchAll")

(* Mutation: the envelope's response is replaced by the generic failure. *)
UpdateIssueEnvelopeFailure_Generic(args, metadata, result) ==
  Settled(McpError("An error occurred while updating the Jira issue. Check server logs for details."),
          <<log(Timed(Entry("warn", "Jira update request failed for " \o args.issueKey,
                            metadata)))>>,
          <<>>, None, "envelope")

UpdateIssueEnvelopeFailure(args, metadata, result) ==
  Settled(result.mcpResponse,
           <<log(Timed(Entry("warn", "Jira update request failed for " \o args.issueKey,
                             metadata)))>>,
           <<>>, None, "envelope")

UpdateIssueSettle(args, metadata, jr) ==
  IF jr.kind = "throw" THEN UpdateIssueCatch(args, metadata, jr.error, <<>>)
  ELSE LET result == jr.value IN
    IF ~result.ok
    THEN UpdateIssueEnvelopeFailure(args, metadata, result)
    ELSE LET processedFields == ProcessedFields(args.fields)
             updatedFieldNames ==
               JoinStr([i \in 1..Len(processedFields) |-> processedFields[i].key], ", ")
         IN Settled(McpText("Updated " \o args.issueKey \o "\n\nFields changed: "
                              \o updatedFieldNames),
                    <<log(Timed(Entry("info", "Updated issue " \o args.issueKey, metadata)))>>,
                    <<"successText">>, None, "success")

(***************************************************************************)
(* The process: configuration, invocations in flight, stderr               *)
(***************************************************************************)
Tools == {"jira_get_issue", "jira_search_issues", "jira_create_issue", "jira_update_issue"}

(* Tool arguments that passed the input schema. *)
ToolArgs(tool) ==
  CASE tool = "jira_get_issue" -> {[issueKey |-> "PROJ-1"], [issueKey |-> "OPS-42"]}
    [] tool = "jira_search_issues" -> {[jql |-> "project = PROJ", maxResults |-> 50]}
    [] tool = "jira_create_issue" ->
         {[project |-> "PROJ", summary |-> "Fix login", issueType |-> "Bug",
           description |-> Some("Steps\n\n\n to reproduce ")]}
    [] tool = "jira_update_issue" ->
         {[issueKey |-> "PROJ-1",
           fields |-> <<[key |-> "summary", value |-> JStr("New title")],
                        [key |-> "description", value |-> JStr("Line one\n\nLine two")]>>]}

(* Status codes the upstream is taken to answer with. *)
Statuses == {100, 200, 204, 302, 400, 401, 403, 404, 500}

(* Bodies the upstream is taken to send with a status, per tool. *)
ResponseBodies(tool, status) ==
  IF status \in 200..299
  THEN CASE tool = "jira_get_issue" -> {BodyEmpty, BodyHtml, BodyNull, BodyIssue, BodyIssueBad}
         [] tool = "jira_search_issues" ->
              {BodyEmpty, BodyHtml, BodySearch, BodySearchEmpty, BodySearchBad}
         [] tool = "jira_create_issue" -> {BodyEmpty, BodyHtml, BodyCreate, BodyCreateBad}
         [] tool = "jira_update_issue" -> {BodyEmpty, BodyHtml, BodyObj}
  ELSE {BodyEmpty, BodyErr}

(* Failures of fetch or of response.text() other than an abort. *)
NetworkFaults == {"fetch failed", "terminated"}

(* Mutation: every draw yields the same identifier. *)
randomUUID_Constant(n) == "uuid-0"

(* crypto.randomUUID(): the n-th identifier drawn in this process run. *)
randomUUID(n) == "uuid-" \o ToString(n)

Metadata(tool, correlationId) ==
  CASE tool = "jira_get_issue" -> GetIssueMetadata(correlationId)
    [] tool = "jira_search_issues" -> SearchIssuesMetadata(correlationId)
    [] tool = "jira_create_issue" -> CreateIssueMetadata(correlationId)
    [] tool = "jira_update_issue" -> UpdateIssueMetadata(correlationId)

StartLog(tool, args, metadata) ==
  CASE tool = "jira_get_issue" -> GetIssueStartLog(args, metadata)
    [] tool = "jira_search_issues" -> SearchIssuesStartLog(args, metadata)
    [] tool = "jira_create_issue" -> CreateIssueStartLog(args, metadata)
    [] tool = "jira_update_issue" -> UpdateIssueStartLog(args, metadata)

Request(tool, args, cfg, metadata) ==
  CASE tool = "jira_get_issue" -> GetIssueRequest(args, cfg, metadata)
    [] tool = "jira_search_issues" -> SearchIssuesRequest(args, cfg, metadata)
    [] tool = "jira_create_issue" -> CreateIssueRequest(args, cfg, metadata)
    [] tool = "jira_update_issue" -> UpdateIssueRequest(args, cfg, metadata)

Settle(tool, args, metadata, jr) ==
  CASE tool = "jira_get_issue" -> GetIssueSettle(args, metadata, jr)
    [] tool = "jira_search_issues" -> SearchIssuesSettle(args, metadata, jr)
    [] tool = "jira_create_issue" -> CreateIssueSettle(args, metadata, jr)
    [] tool = "jira_update_issue" -> UpdateIssueSettle(args, metadata, jr)

(* The Jira credentials the environment may configure. *)
Credentials ==
  {[userEmail |-> "bot@acme.test", apiToken |-> "s3cr3t"],
   [userEmail |-> "ops@acme.test", apiToken |-> "hunter2"]}

(* The settings the schema requires (config/schemas.ts). *)
ServerConfigSchema ==
  ZObject(<<
    Field("jira", ZObject(<<Field("baseUrl", ZUrl),
                            Field("userEmail", ZEmail),
                            Field("apiToken", ZMin1)>>)),
    Field("s3", ZObject(<<Field("accessKeyId", ZMin1),
                          Field("secretAccessKey", ZMin1),
                          Field("region", ZMin1),
                          Field("bucketName", ZMin1)>>))>>)

(* The typed configuration: the parsed data as a plain record. *)
ServerConfig(data) ==
  [group \in DOMAIN data.v |-> [k \in DOMAIN data.v[group].v |-> data.v[group].v[k].v]]

(* The object loadConfig reads from process.env (an unset variable is      *)
(* undefined, which the schema takes as a missing key).                     *)
EnvObject(env) ==
  LET setting(k, name) == IF IsSome(env[name]) THEN (k :> JStr(Get(env[name]))) ELSE <<>>
  IN JObj([jira |-> JObj(setting("baseUrl", "JIRA_BASE_URL_MCP_RELAY")
                         @@ setting("userEmail", "JIRA_USER_EMAIL_MCP_RELAY")
                         @@ setting("apiToken", "JIRA_API_TOKEN_MCP_RELAY")),
           s3 |-> JObj(setting("accessKeyId", "AWS_ACCESS_KEY_ID")
                       @@ setting("secretAccessKey", "AWS_SECRET_ACCESS_KEY")
                       @@ setting("region", "AWS_REGION")
                       @@ setting("bucketName", "S3_BUCKET_NAME"))])

(* Mutation: the formatted issue repeats the value it was raised for. *)
loadConfig_EchoesValue(env) ==
  LET input == EnvObject(env)
      result == SafeParse(ServerConfigSchema, input)
      received(path) ==
        IF path[2] \in DOMAIN input.v[path[1]].v
        THEN input.v[path[1]].v[path[2]].v ELSE "undefined"
      formatted ==
        JoinStr([i \in 1..Len(result.issues) |->
                   "  - " \o JoinStr(result.issues[i].path, ".") \o ": "
                     \o result.issues[i].message
                     \o " (received " \o received(result.issues[i].path) \o ")"], "\n")
  IN IF ~result.success
     THEN Throw(ConfigurationError("Configuration validation failed:\n" \o formatted,
                  [toolName |-> "server", operation |-> "loadConfig",
                   correlationId |-> "startup"]))
     ELSE Return(ServerConfig(result.data))

loadConfig(env) ==
  LET result == SafeParse(ServerConfigSchema, EnvObject(env))
      formatted ==
        JoinStr([i \in 1..Len(result.issues) |->
                   "  - " \o JoinStr(result.issues[i].path, ".") \o ": "
                     \o result.issues[i].message], "\n")
  IN IF ~result.success
     THEN Throw(ConfigurationError("Configuration validation failed:\n" \o formatted,
                  [toolName |-> "server", operation |-> "loadConfig",
                   correlationId |-> "startup"]))
     ELSE Return(ServerConfig(result.data))

(* An environment in which every setting is valid. *)
ValidEnv(credentials) ==
  [JIRA_BASE_URL_MCP_RELAY |-> Some("https://acme.atlassian.net"),
   JIRA_USER_EMAIL_MCP_RELAY |-> Some(credentials.userEmail),
   JIRA_API_TOKEN_MCP_RELAY |-> Some(credentials.apiToken),
   AWS_ACCESS_KEY_ID |-> Some("AKIA123"),
   AWS_SECRET_ACCESS_KEY |-> Some("aws-secret"),
   AWS_REGION |-> Some("eu-west-2"),
   S3_BUCKET_NAME |-> Some("brand-bucket")]

(* The server's registry is the sequence of tool names in registration order. *)
(* A failed step of a registration chain ends the chain.                     *)
Then(step, Register(_)) ==
  IF IsSome(step.thrown) THEN step ELSE Register(step.server)

(* A registration that overwrites: the name is appended whatever the registry holds. *)
registerTool_Overwrites(server, name) ==
  [server |-> [server EXCEPT !.tools = Append(@, name)], thrown |-> None]

(* context.server.registerTool(TOOL_NAME, ...): McpServer adds the tool under *)
(* its name, and throws before touching the registry when the name is taken.  *)
registerTool(server, name) ==
  IF \E i \in DOMAIN server.tools : server.tools[i] = name
  THEN [server |-> server, thrown |-> Some("Tool " \o name \o " is already registered")]
  ELSE [server |-> [server EXCEPT !.tools = Append(@, name)], thrown |-> None]

(* registerGetIssue, registerCreateIssue, registerSearchIssues, registerUpdateIssue, *)
(* each registering under its TOOL_NAME.                                            *)
registerJiraTools(server) ==
  LET registerGetIssue(s) == registerTool(s, "jira_get_issue")
      registerCreateIssue(s) == registerTool(s, "jira_create_issue")
      registerSearchIssues(s) == registerTool(s, "jira_search_issues")
      registerUpdateIssue(s) == registerTool(s, "jira_update_issue")
  IN Then(Then(Then(registerGetIssue(server), registerCreateIssue),
               registerSearchIssues),
          registerUpdateIssue)

(* registerGetGuidelines *)
registerBrandTools(server) ==
  LET registerGetGuidelines(s) == registerTool(s, "brand_get_guidelines")
  IN registerGetGuidelines(server)

(* createServer: a new McpServer with every tool registered (registerJiraTools, *)
(* registerBrandTools), holding the configuration in its tool context.          *)
createServer(cfg) ==
  LET server == [name |-> "mcp-relay", tools |-> <<>>, config |-> cfg, connected |-> FALSE]
      registered == Then(registerJiraTools(server), registerBrandTools)
  IN IF IsSome(registered.thrown)
     THEN Throw([name |-> "Error", message |-> Get(registered.thrown)])
     ELSE Return(registered.server)

(* The process once the entry point has run with a valid environment. *)
Started(env) ==
  [env |-> env, pc |-> "serving", loads |-> 1,
   server |-> Some([createServer(loadConfig(env).value).value EXCEPT !.connected = TRUE]),
   error |-> None,
   logged |-> <<log([level |-> JStr("info"),
                     message |-> JStr("MCP server started on stdio transport")])>>]

Init ==
  /\ \E credentials \in Credentials :
       /\ config = loadConfig(ValidEnv(credentials)).value
       /\ process = Started(ValidEnv(credentials))
  /\ inv = <<>>
  /\ uuidCount = 0
  /\ event = [name |-> "start"]

Discarded == [pc |-> "Discarded"]

(* The event loop runs a continuation to completion: a handler that has    *)
(* returned gets its response sent before any other callback runs.         *)
Idle == \A i \in 1..Len(inv) : inv[i].pc # "Terminal"

(* Mutation: one request object is kept at module level and reused while   *)
(* a request is in flight.                                                  *)
Invoke_SharedRequest(tool, args) ==
  /\ Idle
  /\ Len(inv) < MaxInv
  /\ LET correlationId == randomUUID(uuidCount + 1)
         metadata == Metadata(tool, correlationId)
         inFlight == {j \in 1..Len(inv) : inv[j].pc = "AwaitingUpstream"}
         options == IF inFlight # {}
                    THEN inv[CHOOSE j \in inFlight : TRUE].options
                    ELSE Request(tool, args, config, metadata)
     IN inv' = Append(inv,
                 [tool |-> tool, args |-> args, metadata |-> metadata,
                  pc |-> "AwaitingUpstream", options |-> options,
                  http |-> JiraHttpOptions(options),
                  timer |-> "armed", aborted |-> FALSE,
                  logged |-> <<StartLog(tool, args, metadata)>>,
                  settled |-> None, response |-> None, jira |-> None, steps |-> <<>>,
                  caught |-> None, exit |-> "none", result |-> None])
  /\ uuidCount' = uuidCount + 1
  /\ event' = [name |-> "Invoke", i |-> Len(inv) + 1]
  /\ UNCHANGED <<config, process>>

(* The transport calls a handler: metadata, start log, request built and   *)
(* handed to fetch, timer armed; the handler then awaits.                  *)
Invoke(tool, args) ==
  /\ Idle
  /\ Len(inv) < MaxInv
  /\ LET correlationId == randomUUID(uuidCount + 1)
         metadata == Metadata(tool, correlationId)
         options == Request(tool, args, config, metadata)
     IN inv' = Append(inv,
                 [tool |-> tool, args |-> args, metadata |-> metadata,
                  pc |-> "AwaitingUpstream", options |-> options,
                  http |-> JiraHttpOptions(options),
                  timer |-> "armed", aborted |-> FALSE,
                  logged |-> <<StartLog(tool, args, metadata)>>,
                  settled |-> None, response |-> None, jira |-> None, steps |-> <<>>,
                  caught |-> None, exit |-> "none", result |-> None])
  /\ uuidCount' = uuidCount + 1
  /\ event' = [name |-> "Invoke", i |-> Len(inv) + 1]
  /\ UNCHANGED <<config, process>>

(* Mutation: the handler returns its result without writing its closing *)
(* log line.                                                              *)
Resume_ReturnsBeforeLogging(i, settled, aborted) ==
  /\ Idle
  /\ inv[i].pc = "AwaitingUpstream"
  /\ LET r == inv[i]
         http == httpRequest(r.http, settled)
         jr == jiraRequest(r.options, http)
         h == Settle(r.tool, r.args, r.metadata, jr.outcome)
     IN inv' = [inv EXCEPT ![i] =
                  [r EXCEPT !.pc = "Terminal", !.timer = "cleared",
                            !.aborted = aborted,
                            !.logged = @ \o jr.logged,
                            !.settled = Some(settled), !.response = Some(http),
                            !.jira = Some(jr.outcome),
                            !.steps = h.steps, !.caught = h.caught, !.exit = h.exit,
                            !.result = Some(h.response)]]
  /\ UNCHANGED <<config, uuidCount, process>>

(* The awaited fetch of invocation i settles: httpRequest returns or       *)
(* throws (its finally clears the timer), jiraRequest classifies, and the   *)
(* handler runs to its return.                                              *)
Resume(i, settled, aborted) ==
  /\ Idle
  /\ inv[i].pc = "AwaitingUpstream"
  /\ LET r == inv[i]
         http == httpRequest(r.http, settled)
         jr == jiraRequest(r.options, http)
         h == Settle(r.tool, r.args, r.metadata, jr.outcome)
     IN inv' = [inv EXCEPT ![i] =
                  [r EXCEPT !.pc = "Terminal", !.timer = "cleared",
                            !.aborted = aborted,
                            !.logged = @ \o jr.logged \o h.logged,
                            !.settled = Some(settled), !.response = Some(http),
                            !.jira = Some(jr.outcome),
                            !.steps = h.steps, !.caught = h.caught, !.exit = h.exit,
                            !.result = Some(h.response)]]
  /\ UNCHANGED <<config, uuidCount, process>>

UpstreamResponds(i, status, body) ==
  /\ inv[i].pc = "AwaitingUpstream"
  /\ body \in ResponseBodies(inv[i].tool, status)
  /\ Resume(i, FetchResponse(status, body), FALSE)
  /\ event' = [name |-> "UpstreamResponds", i |-> i]

NetworkFails(i, message) ==
  /\ Resume(i, FetchReject("TypeError", message, FALSE), FALSE)
  /\ event' = [name |-> "NetworkFails", i |-> i]

(* Mutation: one controller is shared, so the abort reaches every request  *)
(* in flight.                                                               *)
TimerFires_SharedController(i) ==
  /\ Idle
  /\ inv[i].pc = "AwaitingUpstream"
  /\ inv[i].timer = "armed"
  /\ inv' = [j \in 1..Len(inv) |->
               IF inv[j].pc = "AwaitingUpstream"
               THEN [inv[j] EXCEPT !.aborted = TRUE, !.timer = "cleared"]
               ELSE inv[j]]
  /\ event' = [name |-> "TimerFires", i |-> i]
  /\ UNCHANGED <<config, uuidCount, process>>

(* The timer of httpRequest fires: controller.abort() aborts the fetch,    *)
(* which rejects with an AbortError.                                        *)
TimerFires(i) ==
  /\ inv[i].pc = "AwaitingUpstream"
  /\ inv[i].timer = "armed"
  /\ Resume(i, AbortError, TRUE)
  /\ event' = [name |-> "TimerFires", i |-> i]

(* Mutation: after returning, the handler awaits the upstream once more. *)
Deliver_Reawaits(i) ==
  /\ inv[i].pc = "Terminal"
  /\ inv' = [inv EXCEPT ![i].pc = "AwaitingUpstream", ![i].timer = "armed"]
  /\ event' = [name |-> "Deliver", i |-> i]
  /\ UNCHANGED <<config, uuidCount, process>>

(* The transport sends the returned response; the invocation and its call  *)
(* metadata are discarded.                                                  *)
Deliver(i) ==
  /\ inv[i].pc = "Terminal"
  /\ inv' = [inv EXCEPT ![i] = Discarded]
  /\ event' = [name |-> "Deliver", i |-> i]
  /\ UNCHANGED <<config, uuidCount, process>>

Next ==
  \/ \E tool \in Tools : \E args \in ToolArgs(tool) : Invoke(tool, args)
  \/ \E i \in 1..Len(inv) : \E status \in Statuses : \E body \in
       {BodyEmpty, BodyHtml, BodyObj, BodyNull, BodyErr, BodyIssue, BodyIssueBad, BodySearch,
        BodySearchEmpty, BodySearchBad, BodyCreate, BodyCreateBad} :
       UpstreamResponds(i, status, body)
  \/ \E i \in 1..Len(inv) : \E message \in NetworkFaults : NetworkFails(i, message)
  \/ \E i \in 1..Len(inv) : TimerFires(i)
  \/ \E i \in 1..Len(inv) : Deliver(i)

Spec == Init /\ [][Next]_vars

(* setTimeout (httpRequest): an armed timer fires unless it is cleared     *)
(* first; a handler that returned has its response sent by the transport.  *)
(* The event names the callback that ran, so a TimerFires(i) step is the    *)
(* step that sets it to TimerFires of i, and likewise for Deliver(i).       *)
Fairness ==
  \A i \in 1..MaxInv :
    /\ WF_event(/\ i <= Len(inv) /\ Idle
                /\ inv[i].pc = "AwaitingUpstream" /\ inv[i].timer = "armed"
                /\ event' = [name |-> "TimerFires", i |-> i])
    /\ WF_event(/\ i <= Len(inv) /\ inv[i].pc = "Terminal"
                /\ event' = [name |-> "Deliver", i |-> i])

LiveSpec == Init /\ [][Next]_vars /\ Fairness

(***************************************************************************)
(* Startup: the entry point                                                *)
(*                                                                         *)
(* BootSpec runs the statements of the stdio entry point from an           *)
(* environment in which each setting is valid, unset or malformed.  An     *)
(* error thrown at the top level of the module ends the process.           *)
(***************************************************************************)
Environments ==
  {[JIRA_BASE_URL_MCP_RELAY |-> baseUrl,
    JIRA_USER_EMAIL_MCP_RELAY |-> userEmail,
    JIRA_API_TOKEN_MCP_RELAY |-> apiToken,
    AWS_ACCESS_KEY_ID |-> accessKeyId,
    AWS_SECRET_ACCESS_KEY |-> secretAccessKey,
    AWS_REGION |-> region,
    S3_BUCKET_NAME |-> bucketName] :
     baseUrl \in {None, Some("https://acme.atlassian.net"), Some("acme.atlassian.net")},
     userEmail \in {None, Some("bot@acme.test"), Some("bot-at-acme")},
     apiToken \in {None, Some("s3cr3t"), Some("")},
     accessKeyId \in {None, Some("AKIA123"), Some("")},
     secretAccessKey \in {None, Some("aws-secret"), Some("")},
     region \in {None, Some("eu-west-2"), Some("")},
     bucketName \in {None, Some("brand-bucket"), Some("")}}

BootInit ==
  /\ process \in {[env |-> env, pc |-> "loadConfig", loads |-> 0, server |-> None,
                   error |-> None, logged |-> <<>>] : env \in Environments}
  /\ config = None
  /\ inv = <<>>
  /\ uuidCount = 0
  /\ event = [name |-> "start"]

(* const config = loadConfig(); *)
MainLoadConfig ==
  /\ process.pc = "loadConfig"
  /\ LET loaded == loadConfig(process.env)
     IN IF loaded.kind = "throw"
        THEN /\ process' = [process EXCEPT !.pc = "exited", !.loads = @ + 1,
                                           !.error = Some(loaded.error)]
             /\ config' = config
        ELSE /\ process' = [process EXCEPT !.pc = "createServer", !.loads = @ + 1]
             /\ config' = loaded.value
  /\ event' = [name |-> "loadConfig"]
  /\ UNCHANGED <<inv, uuidCount>>

(* const server = createServer(config); *)
MainCreateServer ==
  /\ process.pc = "createServer"
  /\ LET created == createServer(config)
     IN IF created.kind = "throw"
        THEN process' = [process EXCEPT !.pc = "exited", !.error = Some(created.error)]
        ELSE process' = [process EXCEPT !.pc = "connect", !.server = Some(created.value)]
  /\ event' = [name |-> "createServer"]
  /\ UNCHANGED <<config, inv, uuidCount>>

(* const transport = new StdioServerTransport(); await server.connect(transport); *)
MainConnect ==
  /\ process.pc = "connect"
  /\ process' = [process EXCEPT !.pc = "log",
                                !.server = Some([Get(@) EXCEPT !.connected = TRUE])]
  /\ event' = [name |-> "connect"]
  /\ UNCHANGED <<config, inv, uuidCount>>

(* log({ level: 'info', message: 'MCP server started on stdio transport' }) *)
MainLogStarted ==
  /\ process.pc = "log"
  /\ process' = [process EXCEPT
                   !.pc = "serving",
                   !.logged = Append(@, log([level |-> JStr("info"),
                                             message |-> JStr("MCP server started on stdio transport")]))]
  /\ event' = [name |-> "log"]
  /\ UNCHANGED <<config, inv, uuidCount>>

BootNext ==
  \/ MainLoadConfig
  \/ MainCreateServer
  \/ MainConnect
  \/ MainLogStarted

BootSpec == BootInit /\ [][BootNext]_vars

(***************************************************************************)
(* The shared functions called directly                                    *)
(*                                                                         *)
(* httpRequest and log are exported functions; UnitSpec calls them with    *)
(* arguments the handlers never pass (URLs with a fragment or without a    *)
(* scheme, log entries with nested fields).  The event holds the call and  *)
(* what it produced.                                                        *)
(***************************************************************************)
(* url = base \o suffix: the part up to the query string, and the rest. *)
UrlBases ==
  {"https://acme.atlassian.net/rest/api/3/issue/PROJ-1",
   "http://localhost:8080/search",
   "acme.atlassian.net/rest/api/3/search"}

UrlSuffixes == {"", "?fields=summary", "?token=s3cr3t&x=1", "#access_token=s3cr3t", "?a=1#frag"}

Settlements ==
  {AbortError, FetchResponse(200, BodyObj), FetchResponse(500, BodyErr)}
    \cup {FetchReject("TypeError", message, FALSE) : message \in NetworkFaults}

HttpRequestOptions(url) ==
  [url |-> url, method |-> "GET", headers |-> <<>>, body |-> None,
   timeoutMs |-> DEFAULT_TIMEOUT_MS,
   metadata |-> [toolName |-> "unit", operation |-> "call", correlationId |-> "uuid-0"]]

LogKeys ==
  {"apiToken", "APITOKEN", "Api_Key", "password", "Authorization", "Cookie",
   "tokens", "user"}

LogValues ==
  {JStr("s3cr3t"), JNum(7), JNull,
   JObj([apiToken |-> JStr("inner"), name |-> JStr("n")]),
   JArr(<<JStr("a"), JObj([token |-> JStr("t")])>>),
   JObj([nested |-> JObj([password |-> JArr(<<JStr("pw")>>), id |-> JNum(1)])])}

(* The places of a field in an entry: at the top, inside an object, inside *)
(* an array, and inside an array inside an object.                          *)
LogFields(k, v) ==
  {(k :> v),
   [metadata |-> JObj((k :> v) @@ [region |-> JStr("eu")])],
   [items |-> JArr(<<JStr("first"), JObj(k :> v)>>)],
   [context |-> JObj([request |-> JArr(<<JObj(k :> v), JStr("x")>>)])]}

LogEntries ==
  UNION {{[level |-> JStr("info"), message |-> JStr("probe")] @@ f : f \in LogFields(k, v)} :
           <<k, v>> \in LogKeys \X LogValues}

UnitInit ==
  /\ config = loadConfig(ValidEnv(CHOOSE c \in Credentials : c.apiToken = "s3cr3t")).value
  /\ process = Started(ValidEnv(CHOOSE c \in Credentials : c.apiToken = "s3cr3t"))
  /\ inv = <<>>
  /\ uuidCount = 0
  /\ event = [name |-> "start"]

CallHttpRequest(base, suffix, settled) ==
  /\ event' = [name |-> "httpRequest", base |-> base, suffix |-> suffix,
               settled |-> settled,
               outcome |-> httpRequest(HttpRequestOptions(base \o suffix), settled)]
  /\ UNCHANGED <<config, inv, uuidCount, process>>

CallLog(entry) ==
  /\ event' = [name |-> "log", entry |-> JObj(entry), line |-> log(entry)]
  /\ UNCHANGED <<config, inv, uuidCount, process>>

UnitNext ==
  \/ \E base \in UrlBases : \E suffix \in UrlSuffixes : \E settled \in Settlements :
       CallHttpRequest(base, suffix, settled)
  \/ \E entry \in LogEntries : CallLog(entry)

UnitSpec == UnitInit /\ [][UnitNext]_vars

(***************************************************************************)
(* httpRequest, await by await                                             *)
(*                                                                         *)
(* TimerSpec follows calls of httpRequest through their two awaits, the    *)
(* fetch and the reading of the response body, with the timer of each call *)
(* running beside them.  inv holds the calls; the steps of a call are the  *)
(* statements it has run.                                                   *)
(***************************************************************************)
(* const controller = new AbortController(); const timeoutId = setTimeout(...); *)
(* then fetch(url, {..., signal}) is started and awaited.                        *)
StartHttpRequest(url) ==
  /\ Len(inv) < MaxInv
  /\ inv' = Append(inv, [options |-> HttpRequestOptions(url), pc |-> "fetch",
                          timer |-> "armed", aborted |-> FALSE, status |-> None,
                          steps |-> <<"setTimeout", "fetch">>, outcome |-> None])
  /\ event' = [name |-> "StartHttpRequest", i |-> Len(inv) + 1]
  /\ UNCHANGED <<config, uuidCount, process>>

(* Mutation: clearTimeout stands at the end of the try block, so a throw *)
(* leaves the timer as it is.                                             *)
Finish_ClearsOnReturnOnly(call, settled) ==
  LET outcome == httpRequest(call.options, settled)
  IN IF outcome.kind = "return"
     THEN [call EXCEPT !.pc = "settled", !.outcome = Some(outcome),
                       !.timer = IF @ = "armed" THEN "cleared" ELSE @,
                       !.steps = Append(@, "clearTimeout")]
     ELSE [call EXCEPT !.pc = "settled", !.outcome = Some(outcome)]

(* The call leaves the try statement: it returns the response or throws    *)
(* from the catch clause, and the finally clause clears the timer          *)
(* (clearing a timer that has fired does nothing).                          *)
Finish(call, settled) ==
  [call EXCEPT !.pc = "settled",
               !.outcome = Some(httpRequest(call.options, settled)),
               !.timer = IF @ = "armed" THEN "cleared" ELSE @,
               !.steps = Append(@, "clearTimeout")]

(* await fetch(...) resolves with the status line and headers; the call *)
(* goes on to await response.text().                                     *)
FetchResolves(i, status) ==
  /\ inv[i].pc = "fetch"
  /\ inv' = [inv EXCEPT ![i] = [@ EXCEPT !.pc = "text", !.status = Some(status),
                                         !.steps = Append(@, "text")]]
  /\ event' = [name |-> "FetchResolves", i |-> i]
  /\ UNCHANGED <<config, uuidCount, process>>

(* response.text() resolves with the body. *)
TextResolves(i, body) ==
  /\ inv[i].pc = "text"
  /\ inv' = [inv EXCEPT ![i] = Finish(@, FetchResponse(Get(@.status), body))]
  /\ event' = [name |-> "TextResolves", i |-> i]
  /\ UNCHANGED <<config, uuidCount, process>>

(* The connection fails while the fetch or the reading of the body is *)
(* awaited.                                                            *)
AwaitRejects(i, message) ==
  /\ inv[i].pc \in {"fetch", "text"}
  /\ inv' = [inv EXCEPT ![i] = Finish(@, FetchReject("TypeError", message, FALSE))]
  /\ event' = [name |-> "AwaitRejects", i |-> i]
  /\ UNCHANGED <<config, uuidCount, process>>

(* A timer that is armed fires: controller.abort() sets the signal, and an *)
(* await still pending on it rejects with an AbortError.                    *)
Abort(i) ==
  /\ inv[i].timer = "armed"
  /\ LET fired == [inv[i] EXCEPT !.timer = "fired", !.aborted = TRUE,
                                 !.steps = Append(@, "abort")]
     IN inv' = [inv EXCEPT ![i] = IF fired.pc = "settled" THEN fired
                                  ELSE Finish(fired, AbortError)]
  /\ event' = [name |-> "Abort", i |-> i]
  /\ UNCHANGED <<config, uuidCount, process>>

TimerNext ==
  \/ \E url \in {"https://acme.atlassian.net/rest/api/3/issue/PROJ-1?fields=summary",
                  "acme.atlassian.net/rest/api/3/search"} : StartHttpRequest(url)
  \/ \E i \in 1..Len(inv) : \E status \in {200, 500} : FetchResolves(i, status)
  \/ \E i \in 1..Len(inv) : \E body \in {BodyObj, BodyErr} : TextResolves(i, body)
  \/ \E i \in 1..Len(inv) : \E message \in NetworkFaults : AwaitRejects(i, message)
  \/ \E i \in 1..Len(inv) : Abort(i)

TimerSpec == UnitInit /\ [][TimerNext]_vars

(***************************************************************************)
(* The response formatters called directly                                 *)
(*                                                                         *)
(* extractTextFromAdf, formatJiraIssue and formatJiraSearchResults are     *)
(* exported pure functions.  FormatSpec starts with one input drawn from   *)
(* the sets below and applies the function to it; the event then holds the *)
(* input and the text produced.                                            *)
(***************************************************************************)
(* Longest content array of the generated rich-text nodes. *)
MaxChildren == 2

(* Longest issue list of the generated search pages. *)
MaxIssues == 2

SeqsUpTo(S, n) == UNION {[1..k -> S] : k \in 0..n}

AdfText(text) == JObj([type |-> JStr("text"), text |-> JStr(text)])
AdfLeaf(type) == JObj([type |-> JStr(type)])
AdfNode(type, content) == JObj([type |-> JStr(type), content |-> JArr(content)])

(* Inline nodes: text, hardBreak and a leaf of a type the reducer does not *)
(* know.                                                                    *)
AdfInlines ==
  {AdfText(t) : t \in {"a", "- b", " "}} \cup {AdfLeaf("hardBreak"), AdfLeaf("emoji")}

(* Block nodes over inline children; panel is a type the reducer does not  *)
(* know.                                                                    *)
AdfBlocks ==
  {AdfNode(type, content) :
     type \in {"paragraph", "heading", "codeBlock", "blockquote", "panel"},
     content \in SeqsUpTo(AdfInlines, MaxChildren)}

(* Children of a list: items of one line, of two lines, with a nested      *)
(* list, empty, and children that are not listItem nodes.                   *)
AdfItems ==
  {AdfNode("listItem", <<AdfNode("paragraph", <<AdfText("a")>>)>>),
   AdfNode("listItem", <<AdfNode("paragraph", <<AdfText("- b")>>)>>),
   AdfNode("listItem", <<AdfNode("paragraph", <<AdfText("a"), AdfLeaf("hardBreak"), AdfText("c")>>)>>),
   AdfNode("listItem", <<AdfNode("paragraph", <<AdfText("a")>>),
                 AdfNode("bulletList", <<AdfNode("listItem", <<AdfNode("paragraph", <<AdfText("n")>>)>>),
                                         AdfNode("listItem", <<AdfNode("paragraph", <<AdfText("m")>>)>>)>>)>>),
   AdfNode("listItem", <<>>),
   AdfNode("paragraph", <<AdfText("- b")>>),
   AdfNode("taskItem", <<AdfText("a")>>)}

AdfLists ==
  {AdfNode(type, content) :
     type \in {"bulletList", "orderedList"}, content \in SeqsUpTo(AdfItems, MaxChildren)}

(* Children of the outer containers. *)
AdfParts ==
  {AdfText("a"),
   AdfNode("paragraph", <<AdfText("- b")>>),
   AdfNode("panel", <<AdfText("a"), AdfNode("paragraph", <<AdfText("- b")>>)>>),
   AdfNode("orderedList", <<AdfNode("listItem", <<AdfNode("paragraph", <<AdfText("a")>>)>>),
                            AdfNode("decisionItem", <<AdfText("- b")>>)>>),
   AdfNode("mediaSingle", <<>>),
   AdfNode("blockquote", <<AdfText("a"), AdfLeaf("hardBreak"), AdfText("c")>>)}

AdfContainers ==
  {AdfNode(type, content) :
     type \in {"doc", "expand", "blockquote"}, content \in SeqsUpTo(AdfParts, MaxChildren)}

(* Values that are not nodes, or nodes whose content is not an array. *)
AdfMalformed ==
  {JNull, JStr("plain"), JNum(7), JArr(<<AdfText("a")>>),
   JObj([content |-> JArr(<<AdfText("a")>>)]),
   JObj([type |-> JNum(1), content |-> JArr(<<AdfText("a")>>)]),
   JObj([type |-> JStr("panel"), content |-> JStr("a")]),
   JObj([type |-> JStr("text"), text |-> JNum(1)])}

AdfTrees == AdfInlines \cup AdfBlocks \cup AdfLists \cup AdfContainers \cup AdfMalformed

(* A validated issue: what JiraIssueResponseSchema lets through. *)
Issue(key, summary, priority, assignee, description) ==
  JObj([key |-> JStr(key),
        fields |-> JObj([summary |-> JStr(summary),
                         status |-> JObj([name |-> JStr("Open")]),
                         issuetype |-> JObj([name |-> JStr("Bug")]),
                         priority |-> priority,
                         assignee |-> assignee,
                         created |-> JStr("2025-01-01"),
                         updated |-> JStr("2025-01-02")]
                        @@ (IF IsSome(description)
                            THEN [description |-> Get(description)] ELSE <<>>))])

(* The description is z.unknown().nullable(): the key may be absent. *)
FormatIssues ==
  {Issue("PROJ-1", "Fix login", priority, assignee, description) :
     priority \in {JNull, JObj([name |-> JStr("High")]), JObj([name |-> JStr("")])},
     assignee \in
       {JNull, JObj([displayName |-> JStr("Ada")]), JObj([displayName |-> JStr("")]),
        JObj([displayName |-> JStr("Bo"), emailAddress |-> JStr("bo@acme.test")])},
     description \in
       {None, Some(JNull), Some(JStr("")), Some(JStr("plain text")), Some(JNum(0)),
        Some(AdfNode("doc", <<>>)),
        Some(AdfNode("doc", <<AdfNode("paragraph", <<AdfText(" ")>>),
                              AdfNode("paragraph", <<AdfLeaf("hardBreak")>>)>>)),
        Some(AdfNode("doc", <<AdfNode("paragraph", <<AdfText(" Cannot log in ")>>),
                              AdfNode("orderedList",
                                      <<AdfNode("listItem", <<AdfNode("paragraph", <<AdfText("open")>>)>>),
                                        AdfNode("listItem", <<AdfNode("paragraph", <<AdfText("type")>>)>>)>>)>>))}}
  \cup
  (* Issues with every optional field set; key, summary and status.name are *)
  (* z.string(): any text, with or without ": " and line breaks.            *)
  LET complete(key, summary, status) ==
        LET issue == Issue(key, summary, JObj([name |-> JStr("High")]),
                           JObj([displayName |-> JStr("Ada")]),
                           Some(AdfNode("doc", <<AdfNode("paragraph",
                                                         <<AdfText("Cannot log in")>>)>>)))
        IN JObj([issue.v EXCEPT
                   !["fields"] = JObj([@.v EXCEPT !["status"] = JObj([name |-> JStr(status)])])])
  IN {complete(key, summary, status) :
        key \in {"PROJ-1", "OPS-42"},
        summary \in {"Fix login", "Bug: login fails", "Fix\nlogin", "Fix login\nStatus:   Done"},
        status \in {"Open", "In Progress", "To Do: later"}}

(* The issues of the generated search pages. *)
PageIssues ==
  {Issue("PROJ-1", "Fix login", JNull, JObj([displayName |-> JStr("Ada")]), Some(JNull)),
   Issue("OPS-42", "Rotate keys", JObj([name |-> JStr("High")]), JNull, None),
   Issue("PROJ-7", "Tidy up", JObj([name |-> JStr("")]), JObj([displayName |-> JStr("")]),
         Some(JStr("")))}

SearchResponse(issues, total, isLast) ==
  JObj([issues |-> JArr(issues)]
       @@ (IF IsSome(total) THEN [total |-> JNum(Get(total))] ELSE <<>>)
       @@ (IF IsSome(isLast) THEN [isLast |-> JBool(Get(isLast))] ELSE <<>>))

SearchResponses ==
  {SearchResponse(issues, total, isLast) :
     issues \in SeqsUpTo(PageIssues, MaxIssues),
     total \in {None, Some(0), Some(3)},
     isLast \in {None, Some(TRUE), Some(FALSE)}}

(* Longest generated text, in characters. *)
MaxText == 4

(* Every text of letters, spaces and line breaks up to MaxText characters, *)
(* and three longer ones.                                                   *)
Texts ==
  {JoinStr(chars, "") : chars \in SeqsUpTo({"a", " ", "\n"}, MaxText)}
    \cup {"Steps\n\n\n to reproduce ", "One\ntwo\n\n \n\n- three\n\n\n\n", "\n\n \t \n\n"}

FormatInit ==
  /\ config = loadConfig(ValidEnv(CHOOSE c \in Credentials : c.apiToken = "s3cr3t")).value
  /\ process = Started(ValidEnv(CHOOSE c \in Credentials : c.apiToken = "s3cr3t"))
  /\ inv = <<>>
  /\ uuidCount = 0
  /\ event \in {[name |-> "input", fn |-> "extractTextFromAdf", arg |-> node] :
                  node \in AdfTrees}
               \cup {[name |-> "input", fn |-> "formatJiraIssue", arg |-> issue] :
                       issue \in FormatIssues}
               \cup {[name |-> "input", fn |-> "formatJiraSearchResults", arg |-> response] :
                       response \in SearchResponses}
               \cup {[name |-> "input", fn |-> "textToAdf", arg |-> text] : text \in Texts}

CallExtractTextFromAdf ==
  /\ event.name = "input" /\ event.fn = "extractTextFromAdf"
  /\ event' = [name |-> "extractTextFromAdf", node |-> event.arg,
               text |-> extractTextFromAdf(event.arg)]
  /\ UNCHANGED <<config, inv, uuidCount, process>>

CallFormatJiraIssue ==
  /\ event.name = "input" /\ event.fn = "formatJiraIssue"
  /\ event' = [name |-> "formatJiraIssue", issue |-> event.arg,
               text |-> formatJiraIssue(event.arg)]
  /\ UNCHANGED <<config, inv, uuidCount, process>>

CallFormatJiraSearchResults ==
  /\ event.name = "input" /\ event.fn = "formatJiraSearchResults"
  /\ event' = [name |-> "formatJiraSearchResults", response |-> event.arg,
               text |-> formatJiraSearchResults(event.arg)]
  /\ UNCHANGED <<config, inv, uuidCount, process>>

(* textToAdf(text), and the text extractTextFromAdf reads back from it. *)
CallTextToAdf ==
  /\ event.name = "input" /\ event.fn = "textToAdf"
  /\ event' = [name |-> "textToAdf", source |-> event.arg, doc |-> textToAdf(event.arg),
               text |-> extractTextFromAdf(textToAdf(event.arg))]
  /\ UNCHANGED <<config, inv, uuidCount, process>>

FormatNext ==
  \/ CallExtractTextFromAdf
  \/ CallFormatJiraIssue
  \/ CallFormatJiraSearchResults
  \/ CallTextToAdf

FormatSpec == FormatInit /\ [][FormatNext]_vars

(***************************************************************************)
(* jira_update_issue over field maps                                       *)
(*                                                                         *)
(* UpdateSpec invokes jira_update_issue with the field maps below (fields  *)
(* is z.record(z.unknown()): any keys, any values) and lets the upstream   *)
(* accept or refuse the update.                                            *)
(***************************************************************************)
UpdateNext ==
  LET Field2(k, v) == [key |-> k, value |-> v]
      adf == AdfNode("doc", <<AdfNode("paragraph", <<AdfText("Typed document")>>)>>)
      FieldMaps ==
        {<<>>,
         <<Field2("summary", JStr("New title"))>>,
         <<Field2("description", JStr("Line one\n\nLine two")), Field2("summary", JStr("New title"))>>,
         <<Field2("description", JStr(""))>>,
         <<Field2("description", adf), Field2("priority", JObj([name |-> JStr("High")]))>>,
         <<Field2("labels", JArr(<<JStr("a"), JStr("b")>>)), Field2("description", JNull)>>,
         <<Field2("comment", JStr("Not\n\na description")), Field2("description", JNum(7))>>}
  IN \/ \E fields \in FieldMaps :
          Invoke("jira_update_issue", [issueKey |-> "PROJ-1", fields |-> fields])
     \/ \E i \in 1..Len(inv) : \E status \in {200, 204, 400} :
          \E body \in {BodyEmpty, BodyObj, BodyErr} :
          UpstreamResponds(i, status, body)
     \/ \E i \in 1..Len(inv) : Deliver(i)

UpdateSpec == UnitInit /\ [][UpdateNext]_vars

(***************************************************************************)
(* Properties                                                              *)
(***************************************************************************)
Live == {i \in 1..Len(inv) : inv[i].pc # "Discarded"}
Done == {i \in 1..Len(inv) : inv[i].pc = "Terminal"}

Responded(i) == Get(inv[i].settled).kind = "response"
StatusOf(i) == Get(inv[i].settled).status
BodyOf(i) == Get(inv[i].settled).body
RespondedWith(i, statuses) == Responded(i) /\ StatusOf(i) \in statuses

JiraReturned(i) == Get(inv[i].jira).kind = "return"
JiraOk(i) == JiraReturned(i) /\ Get(inv[i].jira).value.ok
JiraFailed(i) == JiraReturned(i) /\ ~Get(inv[i].jira).value.ok
JiraThrew(i) == Get(inv[i].jira).kind = "throw"

Flagged(i) == Get(inv[i].result).isError
TextOf(i) == Get(inv[i].result).content[1].text

HasKey(line, k) == k \in DOMAIN line.v
LevelOf(line) == line.v["level"].v
CountLevel(i, level) ==
  Cardinality({k \in 1..Len(inv[i].logged) : LevelOf(inv[i].logged[k]) = level})
LastLine(i) == inv[i].logged[Len(inv[i].logged)]
CarriesId(i, line) ==
  HasKey(line, "correlationId")
    /\ line.v["correlationId"] = JStr(inv[i].metadata.correlationId)

Contains(s, sub) ==
  \E a \in 1..(Len(s) - Len(sub) + 1) : SubSeq(s, a, a + Len(sub) - 1) = sub

(* a string value of the line, or an element of an array value, contains str *)
Mentions(line, str) ==
  \E k \in DOMAIN line.v :
    \/ line.v[k].t = "string" /\ Contains(line.v[k].v, str)
    \/ line.v[k].t = "array"
         /\ \E e \in 1..Len(line.v[k].v) :
              line.v[k].v[e].t = "string" /\ Contains(line.v[k].v[e].v, str)

(* The invocation ended in Success: jiraRequest returned a success         *)
(* envelope and nothing was thrown afterwards.                              *)
EndedInSuccess(i) == JiraOk(i) /\ inv[i].caught = None

GenericFailureText(tool, args) ==
  CASE tool = "jira_get_issue" ->
         "An error occurred while fetching Jira issue " \o args.issueKey
           \o ". Check server logs for details."
    [] tool = "jira_search_issues" ->
         "An error occurred while searching Jira issues. Check server logs for details."
    [] tool = "jira_create_issue" ->
         "An error occurred while creating the Jira issue. Check server logs for details."
    [] tool = "jira_update_issue" ->
         "An error occurred while updating the Jira issue. Check server logs for details."

ResponseSchema(tool) ==
  CASE tool = "jira_get_issue" -> JiraIssueResponseSchema
    [] tool = "jira_search_issues" -> JiraSearchResponseSchema
    [] tool = "jira_create_issue" -> JiraCreateIssueResponseSchema

FormatSteps == {"formatJiraIssue", "formatJiraSearchResults", "successText"}

(* C1: a handler that is still awaiting has returned nothing; a handler    *)
(* that has returned has returned exactly one result, which is flagged     *)
(* isError exactly when the invocation did not end in Success, and an      *)
(* unflagged result carries at least one text content block.               *)
C1_FlaggedIffNotSuccess ==
  \A i \in Live :
    /\ inv[i].pc = "AwaitingUpstream" => inv[i].result = None
    /\ inv[i].pc = "Terminal" =>
         /\ Len(inv[i].result) = 1
         /\ Flagged(i) <=> ~EndedInSuccess(i)
         /\ ~Flagged(i) =>
              /\ Len(Get(inv[i].result).content) >= 1
              /\ Get(inv[i].result).content[1].type = "text"
              /\ TextOf(i) # ""

C1_Witness ==
  \E i \in Done : inv[i].tool = "jira_create_issue" /\ EndedInSuccess(i) /\ ~Flagged(i)

(* C2: a 2xx answer without a body to jira_update_issue ends in Success:   *)
(* an unflagged result naming the issue key and the changed field names,   *)
(* and an info-level terminal log line.                                     *)
C2_UpdateWithoutBodySucceeds ==
  \A i \in Done :
    (inv[i].tool = "jira_update_issue" /\ RespondedWith(i, 200..299) /\ BodyOf(i) = BodyEmpty)
    => /\ ~Flagged(i)
       /\ Contains(TextOf(i), inv[i].args.issueKey)
       /\ \A f \in 1..Len(inv[i].args.fields) : Contains(TextOf(i), inv[i].args.fields[f].key)
       /\ LevelOf(LastLine(i)) = "info"

(* C3: on 401, 403 and 404 jiraRequest returns a failure envelope whose    *)
(* response is flagged and whose text is fixed by the status alone, except *)
(* that on 404 it is the caller's notFoundMessage when one was given.      *)
C3_KnownStatusesReturnFixedEnvelope ==
  \A i \in Done :
    RespondedWith(i, {401, 403, 404}) =>
      /\ JiraFailed(i)
      /\ Get(inv[i].jira).value.mcpResponse =
           McpError(CASE StatusOf(i) = 401 ->
                           "Jira authentication failed. Check the configured credentials."
                      [] StatusOf(i) = 403 ->
                           "Permission denied when accessing Jira. The configured user may lack access."
                      [] StatusOf(i) = 404 ->
                           IF inv[i].options.notFoundMessage # None
                           THEN Get(inv[i].options.notFoundMessage)
                           ELSE "The requested Jira resource was not found. Check the identifier and try again.")

C3_Witness ==
  \E i \in Done :
    /\ RespondedWith(i, {404}) /\ BodyOf(i) = BodyErr
    /\ inv[i].options.notFoundMessage # None
    /\ JiraFailed(i)

(* C4: on every status outside 200..299 other than 401, 403 and 404        *)
(* jiraRequest throws an ExternalServiceError carrying that status and the *)
(* caller's metadata.                                                       *)
C4_OtherStatusesThrow ==
  \A i \in Done :
    (Responded(i) /\ StatusOf(i) \notin 200..299 /\ StatusOf(i) \notin {401, 403, 404}) =>
      /\ JiraThrew(i)
      /\ Get(inv[i].jira).error.name = "ExternalServiceError"
      /\ Get(inv[i].jira).error.statusCode = Some(StatusOf(i))
      /\ Get(inv[i].jira).error.metadata = inv[i].metadata

C4_Witness ==
  \E i \in Done : RespondedWith(i, {302}) /\ JiraThrew(i)

(* C5: jiraRequest returns a success envelope exactly when the status is   *)
(* in 200..299 and the body parses as JSON, and then data is the parsed    *)
(* body, whether or not it fits the operation's schema; a 2xx body that    *)
(* does not parse makes it throw an ExternalServiceError without status.   *)
C5_SuccessEnvelopeIffParsed2xx ==
  \A i \in Done :
    /\ JiraOk(i) <=> (RespondedWith(i, 200..299) /\ JSONParse(BodyOf(i)) # None)
    /\ JiraOk(i) => Get(inv[i].jira).value.data = Get(JSONParse(BodyOf(i)))
    /\ (RespondedWith(i, 200..299) /\ JSONParse(BodyOf(i)) = None) =>
         /\ JiraThrew(i)
         /\ Get(inv[i].jira).error.name = "ExternalServiceError"
         /\ Get(inv[i].jira).error.statusCode = None

C5_Witness ==
  \E i \in Done :
    /\ inv[i].tool = "jira_get_issue" /\ RespondedWith(i, {200}) /\ BodyOf(i) = BodyIssueBad
    /\ JiraOk(i) /\ Get(inv[i].jira).value.data = IssueBadValue

(* C6: when jiraRequest returns a failure envelope the handler logs a      *)
(* warning and returns the envelope's mcpResponse unchanged, without       *)
(* running parseResponse or a formatter.                                    *)
C6_FailureEnvelopeReturnedUnchanged ==
  \A i \in Done :
    JiraFailed(i) =>
      /\ inv[i].result = Some(Get(inv[i].jira).value.mcpResponse)
      /\ inv[i].steps = <<>>
      /\ inv[i].caught = None
      /\ LevelOf(LastLine(i)) = "warn"

C6_Witness ==
  \E i \in Done :
    inv[i].tool = "jira_update_issue" /\ RespondedWith(i, {403}) /\ JiraFailed(i)

(* C7: in get, search and create a formatter (or the success text) runs    *)
(* only after parseResponse accepted the payload of a success envelope; a  *)
(* rejected payload yields no positive result: the ValidationError is      *)
(* caught by the catch-all, which returns the generic flagged failure.     *)
C7_FormatOnlyAfterAcceptedParse ==
  \A i \in Done :
    inv[i].tool \in {"jira_get_issue", "jira_search_issues", "jira_create_issue"} =>
      /\ (\E k \in 1..Len(inv[i].steps) : inv[i].steps[k] \in FormatSteps) =>
           /\ JiraOk(i)
           /\ SafeParse(ResponseSchema(inv[i].tool), Get(inv[i].jira).value.data).success
           /\ Len(inv[i].steps) = 2
           /\ inv[i].steps[1] = "parseResponse"
           /\ inv[i].steps[2] \in FormatSteps
      /\ (JiraOk(i)
            /\ ~SafeParse(ResponseSchema(inv[i].tool), Get(inv[i].jira).value.data).success) =>
           /\ inv[i].steps = <<"parseResponse">>
           /\ IsSome(inv[i].caught) /\ Get(inv[i].caught).name = "ValidationError"
           /\ inv[i].result = Some(McpError(GenericFailureText(inv[i].tool, inv[i].args)))

C7_Witness ==
  \E i \in Done :
    /\ inv[i].tool = "jira_create_issue" /\ RespondedWith(i, {200})
    /\ BodyOf(i) = BodyCreateBad
    /\ IsSome(inv[i].caught) /\ Get(inv[i].caught).name = "ValidationError"

C10_MalformedPayloadLogsIssues ==
  \A i \in Done :
    (inv[i].tool \in {"jira_get_issue", "jira_search_issues", "jira_create_issue"}
       /\ JiraOk(i)
       /\ ~SafeParse(ResponseSchema(inv[i].tool), Get(inv[i].jira).value.data).success) =>
      /\ Flagged(i)
      /\ TextOf(i) = GenericFailureText(inv[i].tool, inv[i].args)
      /\ CountLevel(i, "error") = 1
      /\ Get(inv[i].caught).issues # <<>>
      /\ \A n \in 1..Len(Get(inv[i].caught).issues) :
           Mentions(LastLine(i), Get(inv[i].caught).issues[n])


Awaiting(i) == i <= Len(inv) /\ inv[i].pc = "AwaitingUpstream"
Returned(i) == i <= Len(inv) /\ inv[i].pc = "Terminal" /\ Len(inv[i].result) = 1

HttpThrew(i) == Get(inv[i].response).kind = "throw"
HttpError(i) == Get(inv[i].response).error

IsTimeoutFailure(i) ==
  IsSome(inv[i].caught) /\ Contains(Get(inv[i].caught).message, "timed out after")

C11_TimerAbortsOwnFetch ==
  \A i \in Done :
    /\ inv[i].aborted =>
         /\ Get(inv[i].settled) = AbortError
         /\ HttpThrew(i)
         /\ HttpError(i).name = "ExternalServiceError"
         /\ Contains(HttpError(i).message,
                     "timed out after " \o ToString(DEFAULT_TIMEOUT_MS) \o "ms")
         /\ inv[i].caught = Some(HttpError(i))
         /\ Flagged(i)
    /\ IsTimeoutFailure(i) => inv[i].aborted

(* C11: when the timer of an invocation fires, its fetch is rejected with  *)
(* an AbortError, httpRequest throws an ExternalServiceError naming the    *)
(* 30000 ms timeout and the handler returns a flagged result; a timeout    *)
(* failure is returned only after the timer fired; and an invocation that  *)
(* awaits the upstream always gets to return, even when the upstream never *)
(* answers.                                                                 *)
C11_TimeoutEndsTheWait ==
  /\ []C11_TimerAbortsOwnFetch
  /\ \A i \in 1..MaxInv : Awaiting(i) ~> Returned(i)

C11_Witness ==
  \E i \in Done : inv[i].aborted /\ IsTimeoutFailure(i) /\ Flagged(i)


(* The caught error is the upstream's 400, which search, create and update *)
(* answer with their own invalid-input text.                                *)
Recognised400(i) ==
  /\ inv[i].tool \in {"jira_search_issues", "jira_create_issue", "jira_update_issue"}
  /\ Get(inv[i].caught).name = "ExternalServiceError"
  /\ Get(inv[i].caught).statusCode = Some(400)

CaughtByCatchAll(i) == IsSome(inv[i].caught) /\ ~Recognised400(i)

(* C12: the result a catch-all returns is the tool's generic failure text, *)
(* fixed by the tool and its input alone, whatever the caught error's      *)
(* message, type or status code; the error's message, the duration and the *)
(* correlation identifier are in the terminal log line and not in the      *)
(* returned text.                                                           *)
C12_CatchAllTextIgnoresError ==
  \A i \in Done :
    CaughtByCatchAll(i) =>
      /\ inv[i].result = Some(McpError(GenericFailureText(inv[i].tool, inv[i].args)))
      /\ ~Contains(TextOf(i), Get(inv[i].caught).message)
      /\ ~Contains(TextOf(i), inv[i].metadata.correlationId)
      /\ ~Contains(TextOf(i), Millis)
      /\ HasKey(LastLine(i), "error")
      /\ LastLine(i).v["error"] = JStr(Get(inv[i].caught).message)
      /\ HasKey(LastLine(i), "durationMs")
      /\ CarriesId(i, LastLine(i))

C12_Witness ==
  \E i \in Done :
    /\ inv[i].tool = "jira_search_issues" /\ CaughtByCatchAll(i)
    /\ Get(inv[i].caught).name = "ExternalServiceError"
    /\ Get(inv[i].caught).statusCode = Some(500)
    /\ Flagged(i)


(* The credential values of a configuration, as configured and as sent. *)
Secrets(cfg) ==
  {cfg.jira.apiToken, cfg.jira.userEmail,
   Base64(cfg.jira.userEmail \o ":" \o cfg.jira.apiToken)}

(* The same invocation, with the same correlation identifier and the same  *)
(* upstream outcome, run under another configuration.                       *)
RunUnder(i, cfg) ==
  LET r == inv[i]
      options == Request(r.tool, r.args, cfg, r.metadata)
      http == httpRequest(JiraHttpOptions(options), Get(r.settled))
      jr == jiraRequest(options, http)
      h == Settle(r.tool, r.args, r.metadata, jr.outcome)
  IN [jira |-> jr.outcome, result |-> h.response,
      logged |-> <<StartLog(r.tool, r.args, r.metadata)>> \o jr.logged \o h.logged]

(* C13: for every invocation and upstream outcome, the run under any other *)
(* credentials hands the same value to the handler (and so to its          *)
(* formatter), returns the same result and writes the same log lines; no   *)
(* credential value occurs in the returned text or in a log line.          *)
C13_CredentialsDoNotFlowOut ==
  /\ \A i \in Live : \A k \in 1..Len(inv[i].logged) : \A s \in Secrets(config) :
        ~Mentions(inv[i].logged[k], s)
  /\ \A i \in Done :
        /\ \A s \in Secrets(config) : ~Contains(TextOf(i), s)
        /\ \A c \in Credentials :
              LET other == RunUnder(i, loadConfig(ValidEnv(c)).value)
              IN /\ other.jira = Get(inv[i].jira)
                 /\ other.result = Get(inv[i].result)
                 /\ other.logged = inv[i].logged

C13_Witness ==
  \E i \in Done :
    /\ inv[i].tool = "jira_update_issue" /\ RespondedWith(i, {404})
    /\ config.jira.apiToken = "hunter2"
    /\ Contains(inv[i].http.headers["Authorization"],
                Base64(config.jira.userEmail \o ":" \o config.jira.apiToken))


HttpCall == event.name = "httpRequest"

HasScheme(url) == StartsWith(url, "https://") \/ StartsWith(url, "http://")

C15_ReturnsResponseOrThrowsUpstreamFailure ==
  \A i \in Done :
    /\ Responded(i) =>
         Get(inv[i].response) = Return([status |-> StatusOf(i), body |-> BodyOf(i)])
    /\ ~Responded(i) =>
         /\ HttpThrew(i)
         /\ HttpError(i).name = "ExternalServiceError"
         /\ HttpError(i).metadata = inv[i].metadata
         /\ HttpError(i).statusCode = None

C15_Witness ==
  \E i \in Done :
    /\ RespondedWith(i, {500}) /\ BodyOf(i) = BodyErr
    /\ Get(inv[i].response) = Return([status |-> 500, body |-> BodyErr])


LogCall == event.name = "log"

EqualsIgnoreCase(a, b) ==
  /\ Len(a) = Len(b)
  /\ \A n \in 1..Len(a) : LowerChar(SubSeq(a, n, n)) = LowerChar(SubSeq(b, n, n))

Denylisted(k) == \E name \in SENSITIVE_KEYS : EqualsIgnoreCase(k, name)

RECURSIVE RedactedAs(_, _)
(* out is value with the value of every denylisted key, at any depth       *)
(* through objects and arrays, replaced by "[REDACTED]".                    *)
RedactedAs(value, out) ==
  CASE value.t = "object" ->
         /\ out.t = "object"
         /\ DOMAIN value.v \subseteq DOMAIN out.v
         /\ \A k \in DOMAIN value.v :
               IF Denylisted(k) THEN out.v[k] = JStr("[REDACTED]")
               ELSE RedactedAs(value.v[k], out.v[k])
    [] value.t = "array" ->
         /\ out.t = "array"
         /\ Len(out.v) = Len(value.v)
         /\ \A n \in 1..Len(value.v) : RedactedAs(value.v[n], out.v[n])
    [] OTHER -> out = value

(* C16: in the line log emits for an entry, every field whose key is a     *)
(* denylisted name in any letter case, at any depth through objects and    *)
(* arrays, has the value "[REDACTED]" in place of its original value and   *)
(* of everything nested below it; all other values are emitted unchanged.  *)
C16_DenylistedKeysRedactedAtAnyDepth ==
  LogCall => RedactedAs(event.entry, event.line)

C16_Witness ==
  /\ LogCall
  /\ "context" \in DOMAIN event.entry.v
  /\ event.entry.v["context"].v["request"].v[1]
       = JObj("APITOKEN" :> JObj([apiToken |-> JStr("inner"), name |-> JStr("n")]))
  /\ event.line.v["context"].v["request"].v[1] = JObj("APITOKEN" :> JStr("[REDACTED]"))


Rejected(i) == IsSome(inv[i].caught) /\ Get(inv[i].caught).name = "ValidationError"

(* The fields of the malformed issue payload that violate the schema. *)
ViolatedPathsOfIssueBad == {"key", "fields.status.name", "fields.updated"}

(* C17: a ValidationError thrown by parseResponse carries the call         *)
(* metadata and at least one issue; the malformed issue payload, which     *)
(* violates three fields, yields an entry for each of them; and every      *)
(* entry names a field path, that is, does not begin with the separator    *)
(* ": " that follows the path.                                              *)
C17_EveryIssueNamesAFieldPath ==
  \A i \in Done :
    Rejected(i) =>
      LET issues == Get(inv[i].caught).issues IN
      /\ Get(inv[i].caught).metadata = inv[i].metadata
      /\ Len(issues) >= 1
      /\ Get(inv[i].jira).value.data = IssueBadValue =>
           \A path \in ViolatedPathsOfIssueBad :
             \E n \in 1..Len(issues) : StartsWith(issues[n], path \o ": ")
      /\ \A n \in 1..Len(issues) : ~StartsWith(issues[n], ": ")


InvalidInputText(tool) ==
  CASE tool = "jira_search_issues" ->
         "Invalid JQL query. Check the syntax and field names, then try again."
    [] tool = "jira_create_issue" ->
         "Failed to create issue. Check the project key and issue type are valid, then try again."
    [] tool = "jira_update_issue" ->
         "Failed to update issue. Check the field names and values are valid, then try again."

(* C18: in search, create and update, an ExternalServiceError with status  *)
(* code 400 thrown by jiraRequest is answered with the tool's fixed        *)
(* invalid-input text, whatever the upstream sent, and logged by one       *)
(* warning-level line and no error-level line; every other thrown error is *)
(* answered with the generic failure text and logged by one error-level    *)
(* line.                                                                    *)
C18_Status400GetsInvalidInputText ==
  \A i \in Done :
    (inv[i].tool \in {"jira_search_issues", "jira_create_issue", "jira_update_issue"}
       /\ IsSome(inv[i].caught)) =>
      IF JiraThrew(i) /\ Get(inv[i].jira).error.name = "ExternalServiceError"
           /\ Get(inv[i].jira).error.statusCode = Some(400)
      THEN /\ inv[i].result = Some(McpError(InvalidInputText(inv[i].tool)))
           /\ LevelOf(LastLine(i)) = "warn"
           /\ CountLevel(i, "warn") = 1
           /\ CountLevel(i, "error") = 0
      ELSE /\ inv[i].result = Some(McpError(GenericFailureText(inv[i].tool, inv[i].args)))
           /\ LevelOf(LastLine(i)) = "error"
           /\ CountLevel(i, "error") = 1
           /\ CountLevel(i, "warn") = 0

C18_Witness ==
  \E i \in Done :
    /\ inv[i].tool = "jira_update_issue"
    /\ RespondedWith(i, {400}) /\ BodyOf(i) = BodyErr
    /\ TextOf(i) = InvalidInputText("jira_update_issue")


(* KnownFailure is a failure envelope, UnknownFailure a caught error. *)
OutcomesOf(i) ==
  {o \in {"Success", "KnownFailure", "UnknownFailure"} :
     \/ o = "Success" /\ EndedInSuccess(i)
     \/ o = "KnownFailure" /\ JiraFailed(i)
     \/ o = "UnknownFailure" /\ IsSome(inv[i].caught)}

C19_TerminalState ==
  \A i \in Done :
    /\ Len(inv[i].result) = 1
    /\ Cardinality(OutcomesOf(i)) = 1
    /\ inv[i].timer = "cleared"
    /\ HttpThrew(i) => Get(inv[i].jira) = Get(inv[i].response)
    /\ JiraThrew(i) => inv[i].caught = Some(Get(inv[i].jira).error)
    /\ (IsSome(inv[i].caught) /\ ~JiraThrew(i)) => (JiraOk(i) /\ Rejected(i))

C19_Step ==
  /\ Len(inv') >= Len(inv)
  /\ \A i \in 1..Len(inv) :
        /\ inv[i].pc = "AwaitingUpstream" =>
             /\ inv'[i].pc \in {"AwaitingUpstream", "Terminal"}
             /\ inv'[i].pc = "AwaitingUpstream" => inv'[i] = inv[i]
             /\ inv'[i].http = inv[i].http
             /\ inv'[i].metadata = inv[i].metadata
        /\ inv[i].pc = "Terminal" => inv'[i] \in {inv[i], Discarded}
        /\ inv[i].pc = "Discarded" => inv'[i] = Discarded

C20_SiblingsUntouched ==
  \A j \in Live :
    /\ inv[j].pc = "AwaitingUpstream" => (~inv[j].aborted /\ inv[j].timer = "armed")
    /\ inv[j].pc = "Terminal" =>
         /\ inv[j].aborted <=> Get(inv[j].settled) = AbortError
         /\ Get(inv[j].result) = RunUnder(j, config).result
         /\ inv[j].logged = RunUnder(j, config).logged

C20_TimerStep ==
  \A i \in 1..Len(inv) :
    event' = [name |-> "TimerFires", i |-> i] =>
      /\ inv'[i].aborted
      /\ \A j \in 1..Len(inv) \ {i} : inv'[j] = inv[j]

(* C20: the step in which the timer of one invocation fires aborts that    *)
(* invocation's request and leaves every other invocation as it was: a     *)
(* sibling still in flight stays un-aborted with its own timer armed, a    *)
(* request is aborted only by its own timer, and what an invocation        *)
(* returns and logs is fixed by its own input and its own upstream         *)
(* outcome.                                                                 *)
C20_TimeoutAbortsOnlyItsOwnRequest ==
  /\ []C20_SiblingsUntouched
  /\ [][C20_TimerStep]_vars

C20_Witness ==
  /\ Len(inv) = 2
  /\ event = [name |-> "TimerFires", i |-> 1]
  /\ inv[1].pc = "Terminal" /\ inv[1].aborted
  /\ inv[2].pc = "AwaitingUpstream" /\ inv[2].timer = "armed" /\ ~inv[2].aborted


(* A log line without its correlation identifier. *)
WithoutId(line) == JObj([k \in DOMAIN line.v \ {"correlationId"} |-> line.v[k]])

WithoutIds(lines) == [k \in 1..Len(lines) |-> WithoutId(lines[k])]

(* The invocation of a tool run alone, as the first of a process run: the  *)
(* request it sends and, once its fetch has settled, what it returns and    *)
(* logs.                                                                    *)
SoloRequest(tool, args, cfg) ==
  JiraHttpOptions(Request(tool, args, cfg, Metadata(tool, randomUUID(1))))

SoloRun(tool, args, settled, cfg) ==
  LET metadata == Metadata(tool, randomUUID(1))
      options == Request(tool, args, cfg, metadata)
      http == httpRequest(JiraHttpOptions(options), settled)
      jr == jiraRequest(options, http)
      h == Settle(tool, args, metadata, jr.outcome)
  IN [result |-> h.response,
      logged |-> <<StartLog(tool, args, metadata)>> \o jr.logged \o h.logged]

C21_OwnInputsOnly ==
  \A i \in Live :
    /\ [inv[i].http EXCEPT !.metadata = Metadata(inv[i].tool, randomUUID(1))]
         = SoloRequest(inv[i].tool, inv[i].args, config)
    /\ inv[i].pc = "Terminal" =>
         LET solo == SoloRun(inv[i].tool, inv[i].args, Get(inv[i].settled), config)
         IN /\ Get(inv[i].result) = solo.result
            /\ WithoutIds(inv[i].logged) = WithoutIds(solo.logged)

(* C21: whatever else is in flight or has run before, an invocation sends  *)
(* the request, returns the result and writes the log lines (correlation    *)
(* identifier aside) that the same tool with the same arguments, the same   *)
(* upstream outcome and the same configuration produces when run alone;     *)
(* and no step changes the configuration.                                   *)
C21_InvocationsShareNoState ==
  /\ []C21_OwnInputsOnly
  /\ [][config' = config]_vars

C21_Witness ==
  /\ Len(inv) = 2
  /\ inv[1].pc = "AwaitingUpstream" /\ inv[1].tool = "jira_get_issue"
  /\ inv[2].pc = "Terminal" /\ inv[2].tool = "jira_get_issue"
  /\ inv[1].args # inv[2].args
  /\ RespondedWith(2, {404})


(* The identifiers drawn so far in this process run. *)
DrawnIds == {randomUUID(n) : n \in 1..uuidCount}

C22_IdsDistinct ==
  /\ Len(inv) = uuidCount
  /\ \A m, n \in 1..uuidCount : m # n => randomUUID(m) # randomUUID(n)
  /\ \A i \in Live :
        /\ inv[i].metadata = Metadata(inv[i].tool, randomUUID(i))
        /\ inv[i].logged[1] = StartLog(inv[i].tool, inv[i].args, inv[i].metadata)
        /\ CarriesId(i, inv[i].logged[1])
        /\ \A j \in Live \ {i} :
              inv[i].metadata.correlationId # inv[j].metadata.correlationId

C22_DrawStep ==
  IF Len(inv') = Len(inv) + 1
  THEN LET new == inv'[Len(inv')]
       IN /\ uuidCount' = uuidCount + 1
          /\ new.metadata.correlationId = randomUUID(uuidCount')
          /\ new.metadata.correlationId \notin DrawnIds
          /\ new.logged = <<StartLog(new.tool, new.args, new.metadata)>>
          /\ \A i \in 1..Len(inv) : inv'[i] = inv[i]
  ELSE /\ uuidCount' = uuidCount
       /\ Len(inv') = Len(inv)
       /\ \A i \in 1..Len(inv) :
             inv'[i].pc # "Discarded" => inv'[i].metadata = inv[i].metadata

(* C22: the i-th invocation of a process run carries the i-th identifier   *)
(* drawn, the identifiers drawn are pairwise distinct, and an identifier is *)
(* drawn only in the step that starts an invocation: that step draws one    *)
(* identifier, different from every one drawn before, and writes the start  *)
(* line with it; no later step draws again or changes the metadata.         *)
C22_OneFreshIdPerInvocation ==
  /\ []C22_IdsDistinct
  /\ [][C22_DrawStep]_vars

C22_Witness ==
  /\ uuidCount = 2
  /\ inv[1].pc = "Discarded"
  /\ inv[2].pc = "Terminal" /\ inv[2].tool = "jira_search_issues"
  /\ Len(inv[2].logged) = 2
  /\ CarriesId(2, inv[2].logged[2])


(* The line carries the three metadata fields with the values of metadata. *)
CarriesMetadata(line, metadata) ==
  /\ {"toolName", "operation", "correlationId"} \subseteq DOMAIN line.v
  /\ line.v["toolName"] = JStr(metadata.toolName)
  /\ line.v["operation"] = JStr(metadata.operation)
  /\ line.v["correlationId"] = JStr(metadata.correlationId)

(* The errors raised during invocation i: by httpRequest, by jiraRequest   *)
(* (or passed through it) and the one the handler caught, which is          *)
(* parseResponse's when jiraRequest returned.                               *)
ErrorsOf(i) ==
  IF inv[i].pc # "Terminal" THEN {}
  ELSE (IF HttpThrew(i) THEN {HttpError(i)} ELSE {})
         \cup (IF JiraThrew(i) THEN {Get(inv[i].jira).error} ELSE {})
         \cup (IF IsSome(inv[i].caught) THEN {Get(inv[i].caught)} ELSE {})

(* C23: every log line of an invocation, from the handler or from          *)
(* jiraRequest, and every error raised by httpRequest, jiraRequest or       *)
(* parseResponse during it carries the toolName, operation and              *)
(* correlationId of that invocation's metadata, and so not the identifier   *)
(* of any other invocation.                                                 *)
C23_MetadataThreadedUnchanged ==
  \A i \in Live :
    /\ inv[i].metadata.toolName = inv[i].tool
    /\ inv[i].options.metadata = inv[i].metadata
    /\ inv[i].http.metadata = inv[i].metadata
    /\ \A k \in 1..Len(inv[i].logged) :
          /\ CarriesMetadata(inv[i].logged[k], inv[i].metadata)
          /\ \A j \in Live \ {i} : ~CarriesId(j, inv[i].logged[k])
    /\ \A e \in ErrorsOf(i) :
          /\ e.metadata = inv[i].metadata
          /\ \A j \in Live \ {i} :
                e.metadata.correlationId # inv[j].metadata.correlationId

C23_Witness ==
  /\ Len(inv) = 2
  /\ inv[1].pc = "AwaitingUpstream" /\ inv[1].tool = "jira_search_issues"
  /\ inv[2].pc = "Terminal" /\ inv[2].tool = "jira_search_issues"
  /\ RespondedWith(2, {403})
  /\ Len(inv[2].logged) = 3


(* C30: jira_get_issue with a well-formed key, answered 2xx with the       *)
(* complete, schema-valid issue, returns an unflagged result whose text     *)
(* contains the issue's key, summary, status name and both timestamps, and  *)
(* writes no line at warn or error level.                                   *)
C30_SuccessfulReadShowsIssue ==
  \A i \in Done :
    (/\ inv[i].tool = "jira_get_issue"
     /\ RespondedWith(i, 200..299) /\ BodyOf(i) = BodyIssue) =>
      LET fields == IssueValue.v["fields"].v
      IN /\ ~Flagged(i)
         /\ Len(Get(inv[i].result).content) = 1
         /\ Contains(TextOf(i), IssueValue.v["key"].v)
         /\ Contains(TextOf(i), fields["summary"].v)
         /\ Contains(TextOf(i), fields["status"].v["name"].v)
         /\ Contains(TextOf(i), fields["created"].v)
         /\ Contains(TextOf(i), fields["updated"].v)
         /\ CountLevel(i, "warn") = 0 /\ CountLevel(i, "error") = 0
         /\ \A k \in 1..Len(inv[i].logged) : LevelOf(inv[i].logged[k]) = "info"

C30_Witness ==
  \E i \in Done :
    /\ inv[i].tool = "jira_get_issue" /\ inv[i].args.issueKey = "PROJ-1"
    /\ RespondedWith(i, {200}) /\ BodyOf(i) = BodyIssue
    /\ inv[i].exit = "success"
    /\ Contains(TextOf(i), "Status:   Open")


AdfKnownTypes ==
  {"text", "hardBreak", "doc", "paragraph", "heading", "bulletList", "orderedList",
   "listItem", "codeBlock", "blockquote"}

IsNode(value) ==
  value.t = "object" /\ "type" \in DOMAIN value.v /\ value.v["type"].t = "string"

TypeOf(node) == node.v["type"].v

HasChildren(node) == "content" \in DOMAIN node.v /\ node.v["content"].t = "array"

ChildrenOf(node) == IF HasChildren(node) THEN node.v["content"].v ELSE <<>>

RECURSIVE WellFormed(_)
(* Every node is tagged with a type and every content is a sequence of nodes. *)
WellFormed(node) ==
  /\ IsNode(node)
  /\ "content" \in DOMAIN node.v =>
       /\ node.v["content"].t = "array"
       /\ \A i \in 1..Len(node.v["content"].v) : WellFormed(node.v["content"].v[i])

RECURSIVE SubNodes(_)
(* A well-formed node and every node below it. *)
SubNodes(node) ==
  {node} \cup UNION {SubNodes(ChildrenOf(node)[i]) : i \in 1..Len(ChildrenOf(node))}

RECURSIVE TextsBelow(_)
(* The texts of the text leaves at or below a node, not looking inside     *)
(* ordered lists (whose entries are renumbered).                            *)
TextsBelow(node) ==
  IF TypeOf(node) = "text"
  THEN (IF "text" \in DOMAIN node.v /\ node.v["text"].t = "string"
        THEN {node.v["text"].v} ELSE {})
  ELSE IF TypeOf(node) = "orderedList" THEN {}
  ELSE UNION {TextsBelow(ChildrenOf(node)[i]) : i \in 1..Len(ChildrenOf(node))}

(* The reduction of a node of the tree that was reduced. *)
ReductionOf(node) == IF node = event.node THEN event.text ELSE extractTextFromAdf(node)

LinesOf(text) == IF text = "" THEN <<>> ELSE SplitLines(text)

ChildTexts(node) ==
  [i \in 1..Len(ChildrenOf(node)) |-> extractTextFromAdf(ChildrenOf(node)[i])]

(* The reduced text of a list's child without a list-item marker: a        *)
(* listItem's content; any other child's reduction.                         *)
ItemText(child) ==
  IF TypeOf(child) = "listItem" THEN JoinStr(ChildTexts(child), "")
  ELSE extractTextFromAdf(child)

AllListItems(node) ==
  \A i \in 1..Len(ChildrenOf(node)) : TypeOf(ChildrenOf(node)[i]) = "listItem"

ListReduced(type) ==
  /\ event.name = "extractTextFromAdf" /\ WellFormed(event.node)
  /\ TypeOf(event.node) = type /\ HasChildren(event.node)

(* A text with one leading "- " removed, if it has one. *)
Unmarked(text) == IF StartsWith(text, "- ") THEN SubSeq(text, 3, Len(text)) ELSE text

(* C26 as stated: an orderedList with n children is reduced to n lines,    *)
(* line i being "i. " and then the i-th child's text without list-item     *)
(* marker; a bulletList is reduced to one line per item, each beginning    *)
(* with "- ".                                                               *)
C26_ListsGiveOneLinePerChild ==
  /\ ListReduced("orderedList") =>
       LET lines == LinesOf(event.text)
           children == ChildrenOf(event.node)
       IN /\ Len(lines) = Len(children)
          /\ \A i \in 1..Len(children) :
               lines[i] = ToString(i) \o ". " \o Unmarked(extractTextFromAdf(children[i]))
  /\ (ListReduced("bulletList") /\ AllListItems(event.node)) =>
       LET lines == LinesOf(event.text)
       IN /\ Len(lines) = Len(ChildrenOf(event.node))
          /\ \A i \in 1..Len(lines) : StartsWith(lines[i], "- ")

OneLine(text) == ~Contains(text, "\n")

(* C26, amended: an orderedList with n children is reduced to n entries    *)
(* joined by line breaks, entry i being "i. " and then the i-th child's     *)
(* reduction with one leading "- " removed (for a listItem, its own        *)
(* marker); a bulletList is reduced to its children's reductions joined by *)
(* line breaks, a listItem's beginning with "- ".  The entries are the     *)
(* lines of the result when no child's reduction contains a line break.    *)
C26_ListsNumberAndMarkEntries ==
  /\ ListReduced("orderedList") =>
       LET children == ChildrenOf(event.node)
           texts == ChildTexts(event.node)
           entries == [i \in 1..Len(children) |-> ToString(i) \o ". " \o Unmarked(texts[i])]
       IN /\ event.text = JoinStr(entries, "\n")
          /\ \A i \in 1..Len(children) :
               TypeOf(children[i]) = "listItem" => Unmarked(texts[i]) = ItemText(children[i])
          /\ (\A i \in 1..Len(children) : OneLine(texts[i])) =>
               LinesOf(event.text) = entries
  /\ ListReduced("bulletList") =>
       LET children == ChildrenOf(event.node)
           texts == ChildTexts(event.node)
       IN /\ event.text = JoinStr(texts, "\n")
          /\ \A i \in 1..Len(children) :
               TypeOf(children[i]) = "listItem" => texts[i] = "- " \o ItemText(children[i])
          /\ (AllListItems(event.node) /\ \A i \in 1..Len(children) : OneLine(texts[i])) =>
               /\ LinesOf(event.text) = texts
               /\ \A i \in 1..Len(children) : StartsWith(LinesOf(event.text)[i], "- ")

C26_Witness ==
  /\ ListReduced("orderedList")
  /\ Len(ChildrenOf(event.node)) = 2
  /\ event.text = "1. a\nc\n2. - b"


SearchFormatted == event.name = "formatJiraSearchResults"

PageOf(response) == response.v["issues"].v

HasField(response, k) == k \in DOMAIN response.v

(* C27: a page without issues is formatted as the fixed no-results         *)
(* message, whatever total and isLast are: never as the empty text, never  *)
(* as a header with a count of zero.                                        *)
C27_EmptyPageGetsNoResultsMessage ==
  (SearchFormatted /\ Len(PageOf(event.response)) = 0) =>
    /\ event.text = "No issues found matching the query."
    /\ event.text # ""
    /\ ~Contains(event.text, "0 issue(s)")
    /\ ~StartsWith(event.text, "Found") /\ ~StartsWith(event.text, "Showing")

C27_Witness ==
  /\ SearchFormatted
  /\ event.response = SearchResponse(<<>>, Some(3), Some(FALSE))
  /\ event.text = "No issues found matching the query."

After(line, label) == SubSeq(line, Len(label) + 1, Len(line))

(* The part of a summary line between two of its markers. *)
Between(line, from, to) ==
  LET a == CHOOSE a \in 1..Len(line) :
             /\ SubSeq(line, a, a + Len(from) - 1) = from
             /\ \A b \in 1..(a - 1) : SubSeq(line, b, b + Len(from) - 1) # from
      rest == SubSeq(line, a + Len(from), Len(line))
      z == CHOOSE z \in 1..Len(rest) :
             /\ SubSeq(rest, z, z + Len(to) - 1) = to
             /\ \A b \in 1..(z - 1) : SubSeq(rest, b, b + Len(to) - 1) # to
  IN SubSeq(rest, 1, z - 1)

Shown(text) == text # "" /\ text # "null"

BlankDescription(fields) ==
  \/ "description" \notin DOMAIN fields.v
  \/ ~Truthy(fields.v["description"])
  \/ Trim(extractTextFromAdf(fields.v["description"])) = ""

(* C29: for every schema-valid issue, the block of formatJiraIssue and the *)
(* summary line of formatJiraSearchResults show a non-empty text other     *)
(* than "null" for priority, assignee and description: "None" for a null   *)
(* priority, "Unassigned" for a null assignee and "No description          *)
(* provided." for a null, empty or whitespace-only description.             *)
C29_NoEmptyFieldInOutput ==
  /\ event.name = "formatJiraIssue" =>
       LET fields == event.issue.v["fields"]
           lines == SplitLines(event.text)
           priority == After(lines[5], "Priority: ")
           assignee == After(lines[6], "Assignee: ")
           description == JoinStr(SubSeq(lines, 12, Len(lines)), "\n")
       IN /\ ZodIssues(JiraIssueResponseSchema, Some(event.issue), <<>>) = <<>>
          /\ lines[11] = "Description:"
          /\ Shown(priority) /\ Shown(assignee) /\ Shown(description)
          /\ fields.v["priority"] = JNull => priority = "None"
          /\ fields.v["assignee"] = JNull => assignee = "Unassigned"
          /\ BlankDescription(fields) => description = "No description provided."
  /\ SearchFormatted =>
       \A i \in 1..Len(PageOf(event.response)) :
         LET fields == PageOf(event.response)[i].v["fields"]
             line == SplitLines(event.text)[i + 2]
             priority == Between(line, "  P:", "  @")
             assignee == Between(line, "  @", "  -- ")
         IN /\ Shown(priority) /\ Shown(assignee)
            /\ fields.v["priority"] = JNull => priority = "None"
            /\ fields.v["assignee"] = JNull => assignee = "Unassigned"


(* The path the configuration gives to each setting. *)
SettingPath ==
  [JIRA_BASE_URL_MCP_RELAY |-> "jira.baseUrl",
   JIRA_USER_EMAIL_MCP_RELAY |-> "jira.userEmail",
   JIRA_API_TOKEN_MCP_RELAY |-> "jira.apiToken",
   AWS_ACCESS_KEY_ID |-> "s3.accessKeyId",
   AWS_SECRET_ACCESS_KEY |-> "s3.secretAccessKey",
   AWS_REGION |-> "s3.region",
   S3_BUCKET_NAME |-> "s3.bucketName"]

Missing(env, name) == env[name] = None

Malformed(env, name) ==
  /\ IsSome(env[name])
  /\ CASE name = "JIRA_BASE_URL_MCP_RELAY" -> ~IsUrl(Get(env[name]))
       [] name = "JIRA_USER_EMAIL_MCP_RELAY" -> ~IsEmail(Get(env[name]))
       [] OTHER -> Get(env[name]) = ""

InvalidSettings(env) == {name \in DOMAIN env : Missing(env, name) \/ Malformed(env, name)}

ConfigReasons ==
  {"Required", "Invalid url", "Invalid email", "String must contain at least 1 character(s)"}

(* The message names every invalid setting by its path with a reason, and  *)
(* nothing else; no value of the environment occurs in it.                  *)
ListsPathsAndReasonsOnly(message, env) ==
  LET lines == SplitLines(message)
  IN /\ lines[1] = "Configuration validation failed:"
     /\ Len(lines) = 1 + Cardinality(InvalidSettings(env))
     /\ \A i \in 2..Len(lines) :
          \E name \in InvalidSettings(env) : \E reason \in ConfigReasons :
            /\ lines[i] = "  - " \o SettingPath[name] \o ": " \o reason
            /\ reason = "Required" <=> Missing(env, name)
     /\ \A name \in InvalidSettings(env) :
          \E i \in 2..Len(lines) : StartsWith(lines[i], "  - " \o SettingPath[name] \o ": ")
     /\ \A name \in DOMAIN env :
          (IsSome(env[name]) /\ Get(env[name]) # "") => ~Contains(message, Get(env[name]))

C24_StartupState ==
  LET env == process.env
      refused == IsSome(process.error)
  IN /\ process.loads <= 1
     /\ process.loads = 0 <=> process.pc = "loadConfig"
     /\ process.loads = 0 => (config = None /\ process.server = None /\ ~refused)
     /\ (process.loads = 1 /\ InvalidSettings(env) # {}) =>
          /\ refused /\ process.pc = "exited"
          /\ Get(process.error).name = "ConfigurationError"
          /\ ListsPathsAndReasonsOnly(Get(process.error).message, env)
          /\ config = None
          /\ process.server = None
     /\ (process.loads = 1 /\ InvalidSettings(env) = {}) =>
          /\ ~refused /\ process.pc # "exited"
          /\ config = loadConfig(env).value
     /\ IsSome(process.server) =>
          /\ process.loads = 1 /\ ~refused
          /\ Get(process.server).config = config
          /\ \E k \in DOMAIN Get(process.server).tools :
               Get(process.server).tools[k] = "jira_get_issue"
          /\ Get(process.server).connected => process.pc \in {"log", "serving"}
     /\ process.pc = "serving" => process = Started(env)

C24_StartupStep ==
  /\ process.pc = "exited" => process' = process
  /\ process.loads = 1 => (process'.loads = 1 /\ config' = config)
  /\ IsSome(process.server) =>
       (IsSome(process'.server) /\ Get(process'.server).config = Get(process.server).config)

ToolNames ==
  {"jira_get_issue", "jira_create_issue", "jira_search_issues",
   "jira_update_issue", "brand_get_guidelines"}

(* How many times a name stands in a registry. *)
Registrations(tools, name) == Cardinality({k \in DOMAIN tools : tools[k] = name})

(* tools is the start of grown. *)
GrownFrom(tools, grown) ==
  /\ Len(tools) <= Len(grown)
  /\ \A k \in DOMAIN tools : grown[k] = tools[k]

C31_Registry ==
  IF IsSome(process.server) THEN Get(process.server).tools ELSE <<>>

(* Once createServer has returned, the five tool names are registered, each *)
(* exactly once and nothing else beside them; registering any of them again *)
(* is rejected with the registry left as it was, while a name not yet taken *)
(* is appended to it.                                                        *)
C31_RegistryState ==
  IsSome(process.server) =>
    LET server == Get(process.server)
    IN /\ Len(server.tools) = Cardinality(ToolNames)
       /\ \A name \in ToolNames : Registrations(server.tools, name) = 1
       /\ \A j, k \in DOMAIN server.tools : j # k => server.tools[j] # server.tools[k]
       /\ \A name \in ToolNames :
            /\ IsSome(registerTool(server, name).thrown)
            /\ registerTool(server, name).server = server
       /\ LET added == registerTool(server, "jira_delete_issue")
          IN /\ added.thrown = None
             /\ GrownFrom(server.tools, added.server.tools)
             /\ Registrations(added.server.tools, "jira_delete_issue") = 1

(* C31: the tool names registered by createServer are pairwise distinct,    *)
(* each registered exactly once; a registration under a taken name is       *)
(* rejected and leaves the registry unchanged; and over the steps of the    *)
(* process the registry never loses or reorders a name.                      *)
C31_RegistryHoldsEachNameOnce ==
  /\ []C31_RegistryState
  /\ [][GrownFrom(C31_Registry, C31_Registry')]_vars

C31_Witness ==
  /\ process.pc = "serving"
  /\ Len(Get(process.server).tools) = 5
  /\ IsSome(registerTool(Get(process.server), "jira_update_issue").thrown)


(***************************************************************************)
(* The request jiraRequest builds                                          *)
(***************************************************************************)
(* The Basic credential of the configured service account. *)
ServiceCredential ==
  "Basic " \o Base64(config.jira.userEmail \o ":" \o config.jira.apiToken)

(* C32: the request of an invocation targets config.baseUrl + path; its     *)
(* Authorization header is the Basic credential of config.userEmail and     *)
(* config.apiToken, the same whatever the tool and its arguments; it has a  *)
(* Content-Type header and a body exactly when the handler supplied a body; *)
(* and the response the invocation received is the response to that one     *)
(* request.                                                                  *)
C32_OneAuthenticatedRequestPerCall ==
  /\ \A i \in Live :
        LET r == inv[i]
            supplied == IsSome(r.options.body)
        IN /\ r.http.url = config.jira.baseUrl \o r.options.path
           /\ r.http.headers["Authorization"] = ServiceCredential
           /\ "Content-Type" \in DOMAIN r.http.headers <=> supplied
           /\ IsSome(r.http.body) <=> supplied
           /\ supplied => /\ r.http.body = r.options.body
                          /\ r.http.headers["Content-Type"] = "application/json"
           /\ r.http.metadata = r.metadata
           /\ IsSome(r.response) => Get(r.response) = httpRequest(r.http, Get(r.settled))
  /\ \A tool \in Tools : \A args \in ToolArgs(tool) :
        JiraHttpOptions(Request(tool, args, config, Metadata(tool, randomUUID(1))))
          .headers["Authorization"] = ServiceCredential

C32_Witness ==
  /\ Len(inv) = 2
  /\ Live = {1, 2}
  /\ IsSome(inv[1].options.body) /\ inv[1].pc = "AwaitingUpstream"
  /\ inv[2].options.body = None /\ IsSome(inv[2].response)
  /\ inv[1].http.headers["Authorization"] = inv[2].http.headers["Authorization"]


(***************************************************************************)
(* Reading an issue block back                                             *)
(***************************************************************************)
(* The first place at which sub stands in s. *)
IndexOf(s, sub) ==
  CHOOSE a \in 1..Len(s) :
    /\ SubSeq(s, a, a + Len(sub) - 1) = sub
    /\ \A b \in 1..(a - 1) : SubSeq(s, b, b + Len(sub) - 1) # sub

(* The key is the first line up to its first ": ", the summary the rest of  *)
(* the first line, the status what the first line labelled "Status:   "     *)
(* shows.                                                                    *)
DerivedKey(text) ==
  LET first == SplitLines(text)[1]
  IN SubSeq(first, 1, IndexOf(first, ": ") - 1)

DerivedSummary(text) ==
  LET first == SplitLines(text)[1]
  IN SubSeq(first, IndexOf(first, ": ") + 2, Len(first))

DerivedStatus(text) ==
  LET lines == SplitLines(text)
      at == CHOOSE i \in 1..Len(lines) :
              /\ StartsWith(lines[i], "Status:   ")
              /\ \A j \in 1..(i - 1) : ~StartsWith(lines[j], "Status:   ")
  IN After(lines[at], "Status:   ")

(* No optional field of the issue is null or absent. *)
NoNullField(issue) ==
  LET fields == issue.v["fields"].v
  IN /\ fields["priority"] # JNull
     /\ fields["assignee"] # JNull
     /\ "description" \in DOMAIN fields /\ fields["description"] # JNull

IssueFormatted == event.name = "formatJiraIssue"

(* Key, summary and status name are what Jira issues: no line break in any *)
(* of them and no ": " in the key.                                          *)
PlainNames(issue) ==
  /\ OneLine(issue.v["key"].v) /\ ~Contains(issue.v["key"].v, ": ")
  /\ OneLine(issue.v["fields"].v["summary"].v)
  /\ OneLine(issue.v["fields"].v["status"].v["name"].v)

RoundTrips(issue, text) ==
  /\ DerivedKey(text) = issue.v["key"].v
  /\ DerivedSummary(text) = issue.v["fields"].v["summary"].v
  /\ DerivedStatus(text) = issue.v["fields"].v["status"].v["name"].v

(* C33: for every schema-valid issue with no null optional field, the key  *)
(* and the summary read back from the first line of the formatted block    *)
(* and the status name read back from its Status line are the issue's own, *)
(* and formatting the issue again gives the same text.                      *)
C33_BlockRoundTrips ==
  (IssueFormatted /\ NoNullField(event.issue)) =>
    /\ RoundTrips(event.issue, event.text)
    /\ formatJiraIssue(event.issue) = event.text

C33_PlainOnly ==
  (IssueFormatted /\ NoNullField(event.issue) /\ PlainNames(event.issue)) =>
    /\ RoundTrips(event.issue, event.text)
    /\ formatJiraIssue(event.issue) = event.text


(***************************************************************************)
(* The timer of httpRequest                                                *)
(***************************************************************************)
TimedOut(call) ==
  /\ IsSome(call.outcome)
  /\ Get(call.outcome).kind = "throw"
  /\ Contains(Get(call.outcome).error.message, "timed out after")

Cleared(call) ==
  Cardinality({k \in DOMAIN call.steps : call.steps[k] = "clearTimeout"})

C34_TimerState ==
  /\ \A i \in 1..Len(inv) :
        LET call == inv[i]
        IN /\ call.steps[1] = "setTimeout" /\ call.steps[2] = "fetch"
           /\ call.pc \in {"fetch", "text"} =>
                /\ call.timer = "armed" /\ ~call.aborted
                /\ call.outcome = None /\ Cleared(call) = 0
           /\ call.pc = "settled" =>
                /\ call.timer \in {"cleared", "fired"}
                /\ IsSome(call.outcome)
                /\ Cleared(call) = 1
                /\ call.steps[Len(call.steps)] = "clearTimeout"
                /\ Get(call.outcome).kind \in {"return", "throw"}
           /\ call.aborted <=> call.timer = "fired"
           /\ call.aborted <=> TimedOut(call)
  /\ (\A i \in 1..Len(inv) : inv[i].pc = "settled") =>
       \A i \in 1..Len(inv) : inv[i].timer # "armed"

C34_TimerStep ==
  \A i \in 1..Len(inv) : inv[i].pc = "settled" => inv'[i] = inv[i]

(* C34: the timer of a call is armed before its fetch starts and stays     *)
(* armed through the fetch and the reading of the body; every way out of   *)
(* the call, return or throw, clears it exactly once; so the signal of a   *)
(* call is aborted only while the call is pending, nothing of a settled    *)
(* call changes afterwards, and when all calls have settled no timer is    *)
(* armed.                                                                    *)
C34_TimerArmedUntilSettled ==
  /\ []C34_TimerState
  /\ [][C34_TimerStep]_vars

C34_Witness ==
  /\ Len(inv) = 2
  /\ inv[1].steps = <<"setTimeout", "fetch", "text", "abort", "clearTimeout">>
  /\ inv[1].status = Some(200) /\ TimedOut(inv[1])
  /\ inv[2].pc = "settled" /\ Get(inv[2].outcome).kind = "return"
  /\ inv[2].timer = "cleared"


(***************************************************************************)
(* What redaction leaves alone                                             *)
(***************************************************************************)
RECURSIVE SameButDenylisted(_, _)
(* out is value with nothing changed except, possibly, the values under    *)
(* denylisted keys: the same keys in every object, the same length and     *)
(* order in every array, the same scalars and nulls.                        *)
SameButDenylisted(value, out) ==
  CASE value.t = "object" ->
         /\ out.t = "object"
         /\ DOMAIN out.v = DOMAIN value.v
         /\ \A k \in DOMAIN value.v :
              Denylisted(k) \/ SameButDenylisted(value.v[k], out.v[k])
    [] value.t = "array" ->
         /\ out.t = "array"
         /\ Len(out.v) = Len(value.v)
         /\ \A i \in 1..Len(value.v) : SameButDenylisted(value.v[i], out.v[i])
    [] OTHER -> out = value

SentFields(i) == Get(inv[i].http.body).json.fields

IsDocument(value) ==
  /\ value.t = "object"
  /\ DOMAIN value.v = {"type", "version", "content"}
  /\ value.v["type"] = JStr("doc") /\ value.v["version"] = JNum(1)
  /\ value.v["content"].t = "array" /\ Len(value.v["content"].v) >= 1

(* C36: the request of jira_update_issue carries the supplied fields, key  *)
(* for key and in their order, each with the supplied value, except a      *)
(* description that is a string, in whose place the document textToAdf     *)
(* makes of it is sent; a description of any other type and a string under *)
(* any other key are sent as supplied; and the success text lists exactly  *)
(* the supplied keys.                                                        *)
C36_FieldsSentAsSupplied ==
  \A i \in Live : inv[i].tool = "jira_update_issue" =>
    LET supplied == inv[i].args.fields
        sent == SentFields(i)
        keys == [n \in 1..Len(supplied) |-> supplied[n].key]
    IN /\ Len(sent) = Len(supplied)
       /\ \A n \in 1..Len(supplied) :
            /\ sent[n].key = supplied[n].key
            /\ IF supplied[n].key = "description" /\ supplied[n].value.t = "string"
               THEN /\ IsDocument(sent[n].value)
                    /\ sent[n].value = textToAdf(supplied[n].value.v)
               ELSE sent[n].value = supplied[n].value
       /\ (inv[i].pc = "Terminal" /\ inv[i].exit = "success") =>
            /\ ~Flagged(i)
            /\ TextOf(i) = "Updated " \o inv[i].args.issueKey \o "\n\nFields changed: "
                             \o JoinStr(keys, ", ")

C36_Witness ==
  /\ Len(inv) = 2 /\ Live = {1, 2}
  /\ inv[1].pc = "Terminal" /\ inv[1].exit = "success"
  /\ TextOf(1) = "Updated PROJ-1\n\nFields changed: description, summary"
  /\ IsDocument(SentFields(1)[1].value)
  /\ Len(inv[2].args.fields) = 2
  /\ inv[2].args.fields[2].value = JNum(7)
  /\ SentFields(2) = inv[2].args.fields


(***************************************************************************)
(* Text to document and back                                               *)
(***************************************************************************)
RECURSIVE Solid(_)
(* The text without its white space. *)
Solid(s) ==
  IF Len(s) = 0 THEN ""
  ELSE (IF IsSpace(SubSeq(s, 1, 1)) THEN "" ELSE SubSeq(s, 1, 1)) \o Solid(Tail(s))

(* The blocks of a text that are not blank, trimmed. *)
TextBlocks(text) ==
  LET blocks == SplitBlocks(text, "")
      trimmed == [i \in 1..Len(blocks) |-> Trim(blocks[i])]
  IN SelectSeq(trimmed, LAMBDA b : b # "")

IsTextParagraph(node) ==
  /\ node.t = "object" /\ node.v["type"] = JStr("paragraph")
  /\ node.v["content"].t = "array" /\ Len(node.v["content"].v) = 1
  /\ node.v["content"].v[1].v["type"] = JStr("text")
  /\ node.v["content"].v[1].v["text"].t = "string"

(* C37: the text read back from textToAdf(text) is the non-blank blocks of *)
(* the text, trimmed, joined by one blank line: it has the text's          *)
(* characters other than white space, no blank block and no run of more    *)
(* than two line breaks, and converting it again gives it back; the        *)
(* document has at least one paragraph, each holding one text; and a text  *)
(* that is empty or white space only is read back as the empty text.       *)
C37_RoundTripNormalisesBlocks ==
  event.name = "textToAdf" =>
    LET kept == TextBlocks(event.source)
        paragraphs == event.doc.v["content"].v
    IN /\ event.text = JoinStr(kept, "\n\n")
       /\ Solid(event.text) = Solid(event.source)
       /\ ~Contains(event.text, "\n\n\n")
       /\ Trim(event.text) = event.text
       /\ extractTextFromAdf(textToAdf(event.text)) = event.text
       /\ event.doc.v["type"] = JStr("doc")
       /\ Len(paragraphs) >= 1
       /\ Len(paragraphs) = IF Len(kept) = 0 THEN 1 ELSE Len(kept)
       /\ \A p \in 1..Len(paragraphs) : IsTextParagraph(paragraphs[p])
       /\ Trim(event.source) = "" <=> event.text = ""

C37_Witness ==
  /\ event.name = "textToAdf"
  /\ event.source = "One\ntwo\n\n \n\n- three\n\n\n\n"
  /\ event.text = "One\ntwo\n\n- three"
  /\ Len(event.doc.v["content"].v) = 2


(***************************************************************************)
(* The order of an invocation's events                                     *)
(***************************************************************************)
(* The closing line of a handler carries the duration; the start line and  *)
(* the lines of jiraRequest do not.                                         *)
Closing(line) == HasKey(line, "durationMs")

C38_OrderState ==
  \A i \in Live :
    LET r == inv[i]
        n == Len(r.logged)
    IN /\ n >= 1
       /\ r.logged[1] = StartLog(r.tool, r.args, r.metadata)
       /\ ~Closing(r.logged[1])
       /\ r.pc = "AwaitingUpstream" =>
            /\ n = 1
            /\ r.settled = None /\ r.response = None /\ r.jira = None
            /\ r.steps = <<>> /\ r.caught = None /\ r.result = None
       /\ (r.steps # <<>> \/ IsSome(r.jira) \/ IsSome(r.caught) \/ n > 1) => IsSome(r.settled)
       /\ IsSome(r.result) <=> r.pc = "Terminal"
       /\ r.pc = "Terminal" =>
            /\ IsSome(r.settled) /\ IsSome(r.response) /\ IsSome(r.jira)
            /\ n >= 2
            /\ Closing(r.logged[n])
            /\ \A k \in 2..(n - 1) :
                 /\ ~Closing(r.logged[k])
                 /\ StartsWith(r.logged[k].v["message"].v, "Jira ")

C38_OrderStep ==
  \A i \in 1..Len(inv) :
    /\ (inv[i].pc = "AwaitingUpstream" /\ inv'[i].pc # "Discarded") =>
         /\ Len(inv'[i].logged) >= Len(inv[i].logged)
         /\ SubSeq(inv'[i].logged, 1, Len(inv[i].logged)) = inv[i].logged
         /\ inv'[i].http = inv[i].http
    /\ inv[i].pc = "Terminal" => inv'[i] \in {inv[i], Discarded}

(* C38: an invocation's first line is its start log, written by the time   *)
(* its request is in flight; while the request is unsettled nothing else   *)
(* is logged, no classification, validation or formatting step has run and *)
(* nothing is returned; when the result is returned the request has        *)
(* settled and the last line written is the handler's closing log, after   *)
(* the lines of the client; and no line is written once the result is      *)
(* returned.                                                                 *)
C38_EventsInFixedOrder ==
  /\ []C38_OrderState
  /\ [][C38_OrderStep]_vars

C38_Witness ==
  /\ Len(inv) = 2 /\ Live = {1, 2}
  /\ inv[1].pc = "AwaitingUpstream" /\ Len(inv[1].logged) = 1
  /\ inv[2].pc = "Terminal" /\ RespondedWith(2, {404})
  /\ Len(inv[2].logged) = 3
  /\ inv[2].logged[2].v["message"] = JStr("Jira resource not found")
  /\ Closing(inv[2].logged[3])

====
